---- MODULE Spec2Model ----
(***************************************************************************)
(* Stereo combination of telescope-wise predictions                        *)
(* (ctapipe/ml/stereo_combination.py, StereoMeanCombiner).                 *)
(*                                                                         *)
(* Numbers.  A float is modelled exactly: NaN, or a rational n/d in lowest *)
(* terms.  sqrt, log and exp produce a rational where the result is one    *)
(* and a canonical symbolic term otherwise, so that two results are equal  *)
(* as TLA+ values exactly when they are equal as real numbers.  Rounding   *)
(* is not modelled.  Sequences are 1-based where numpy's indices are       *)
(* 0-based.                                                                *)
(***************************************************************************)
EXTENDS Integers, Sequences, FiniteSets, TLC

VARIABLES
    property,          \* StereoCombiner.property
    weights,           \* StereoMeanCombiner.weights
    log_target,        \* StereoMeanCombiner.log_target
    mono_predictions,  \* the table handed to predict_table
    stereo_table,      \* what predict_table returned (or how it failed)
    event,             \* the ArrayEventContainer handed to __call__
    call_result,       \* how __call__ ended
    prefix,            \* StereoCombiner.prefix
    calls,             \* the combiners called on the event so far, and how each ended
    tool               \* the ApplyModels tool: subarray, models, loader, log, output

vars == <<property, weights, log_target, mono_predictions, stereo_table,
          event, call_result, prefix, calls, tool>>

----------------------------------------------------------------------------
(* Floating point values *)

Abs(i) == IF i < 0 THEN -i ELSE i

RECURSIVE Gcd(_, _)
Gcd(a, b) == IF b = 0 THEN a ELSE Gcd(b, a % b)

NaN == [k |-> "nan"]

\* the rational n/d, d # 0, in lowest terms with a positive denominator
Rat(n, d) ==
    LET g == Gcd(Abs(n), Abs(d))
        s == IF d < 0 THEN -1 ELSE 1
    IN  [k |-> "rat", n |-> s * (n \div g), d |-> s * (d \div g)]

Zero == Rat(0, 1)
One == Rat(1, 1)

IsNaN(x) == x.k = "nan"
IsRat(x) == x.k = "rat"

\* np.isfinite: no operation of the combiner yields an infinity on the
\* inputs considered (positive energies, non-negative weights)
isfinite(x) == x.k # "nan"

Add(x, y) ==
    IF IsRat(x) /\ IsRat(y) THEN Rat(x.n * y.d + y.n * x.d, x.d * y.d) ELSE NaN

Sub(x, y) ==
    IF IsRat(x) /\ IsRat(y) THEN Rat(x.n * y.d - y.n * x.d, x.d * y.d) ELSE NaN

Mul(x, y) ==
    IF IsRat(x) /\ IsRat(y) THEN Rat(x.n * y.n, x.d * y.d) ELSE NaN

\* true division of floats: 0/0 is NaN (numpy warns and goes on); a
\* non-zero value is never divided by zero here
Div(x, y) ==
    IF IsRat(x) /\ IsRat(y) /\ y.n # 0 THEN Rat(x.n * y.d, x.d * y.n) ELSE NaN

\* x > y on floats: a comparison with NaN is false
Greater(x, y) == IsRat(x) /\ IsRat(y) /\ x.n * y.d > y.n * x.d

\* the maximum of two floats as np.max takes it: NaN if either is NaN
Max2(x, y) == IF IsNaN(x) \/ IsNaN(y) THEN NaN ELSE IF Greater(y, x) THEN y ELSE x

IsSquare(n) == \E s \in 0..n : s * s = n
IntSqrt(n) == CHOOSE s \in 0..n : s * s = n

\* np.sqrt of a non-negative value
Sqrt(x) ==
    IF ~IsRat(x) \/ x.n < 0 THEN NaN
    ELSE IF IsSquare(x.n) /\ IsSquare(x.d) THEN Rat(IntSqrt(x.n), IntSqrt(x.d))
    ELSE [k |-> "sqrt", of |-> x]

RECURSIVE Pow2(_)
Pow2(e) == IF e = 0 THEN 1 ELSE 2 * Pow2(e - 1)

IsPow2(n) == \E e \in 0..n : Pow2(e) = n
Log2Int(n) == CHOOSE e \in 0..n : Pow2(e) = n

\* mutant: the logarithm to another base than the one Exp inverts (np.log10
\* for np.log)
Log_other_base(x) ==
    IF ~IsRat(x) \/ x.n <= 0 THEN NaN
    ELSE IF IsPow2(x.n) /\ IsPow2(x.d) THEN Rat(Log2Int(x.n) - Log2Int(x.d), 2)
    ELSE [k |-> "log10", of |-> x]

\* np.log and np.exp.  The combiner only ever computes exp(f(log v_1, ..,
\* log v_n)) with f homogeneous of degree one (a weighted mean, or the
\* square root of a weighted mean of squared deviations), for which
\* logarithm and exponential to base 2 give the same real number as those
\* to base e.  log is exact on the powers of two, symbolic elsewhere.
Log(x) ==
    IF ~IsRat(x) \/ x.n <= 0 THEN NaN
    ELSE IF IsPow2(x.n) /\ IsPow2(x.d) THEN Rat(Log2Int(x.n) - Log2Int(x.d), 1)
    ELSE [k |-> "log", of |-> x]

Exp(x) ==
    IF IsNaN(x) THEN NaN
    ELSE IF IsRat(x) /\ x.d = 1
         THEN (IF x.n >= 0 THEN Rat(Pow2(x.n), 1) ELSE Rat(1, Pow2(-x.n)))
    ELSE [k |-> "exp", of |-> x]

----------------------------------------------------------------------------
(* numpy helpers *)

\* mutant: event_id compared before obs_id
KeyLess_event_id_first(a, b) == a[2] < b[2] \/ (a[2] = b[2] /\ a[1] < b[1])

KeyLess(a, b) == a[1] < b[1] \/ (a[1] = b[1] /\ a[2] < b[2])

RECURSIVE SortKeys(_)
SortKeys(S) ==
    IF S = {} THEN <<>>
    ELSE LET m == CHOOSE x \in S : \A y \in S \ {x} : KeyLess(x, y)
         IN  <<m>> \o SortKeys(S \ {m})

KeyOf(row) == <<row.obs_id, row.event_id>>

\* mutant: only the array events with a valid row are kept, as the
\* docstring of predict_table has it ("you might end up with less events")
unique_of_valid_rows(table) ==
    LET array_events ==
            SortKeys({KeyOf(table[i]) : i \in {j \in DOMAIN table : table[j].is_valid}})
        pos(key) == IF \E g \in DOMAIN array_events : array_events[g] = key
                    THEN CHOOSE g \in DOMAIN array_events : array_events[g] = key
                    ELSE 1
    IN  [array_events |-> array_events,
         indices |-> [i \in DOMAIN table |-> pos(KeyOf(table[i]))],
         multiplicity |->
            [g \in DOMAIN array_events |->
                Cardinality({i \in DOMAIN table : KeyOf(table[i]) = array_events[g]})]]

\* np.unique(table[["obs_id", "event_id"]], return_inverse=True,
\* return_counts=True): the sorted unique keys, for every row the position
\* of its key among them, and the number of rows of every key
unique(table) ==
    LET array_events == SortKeys({KeyOf(table[i]) : i \in DOMAIN table})
        pos(key) == CHOOSE g \in DOMAIN array_events : array_events[g] = key
    IN  [array_events |-> array_events,
         indices |-> [i \in DOMAIN table |-> pos(KeyOf(table[i]))],
         multiplicity |->
            [g \in DOMAIN array_events |->
                Cardinality({i \in DOMAIN table : KeyOf(table[i]) = array_events[g]})]]

\* a[mask] for a boolean mask of the same length
RECURSIVE MaskSelect(_, _)
MaskSelect(a, mask) ==
    IF a = <<>> THEN <<>>
    ELSE IF Head(mask) THEN <<Head(a)>> \o MaskSelect(Tail(a), Tail(mask))
    ELSE MaskSelect(Tail(a), Tail(mask))

\* np.repeat(a, counts): counts[g] copies of a[g], for g in order
RECURSIVE repeat(_, _)
repeat(a, counts) ==
    IF a = <<>> THEN <<>>
    ELSE [i \in 1..Head(counts) |-> Head(a)] \o repeat(Tail(a), Tail(counts))

\* np.full(n, v)
full(n, v) == [g \in 1..n |-> v]

RECURSIVE SeqMax(_)
SeqMax(a) == IF Len(a) = 1 THEN a[1] ELSE Max2(a[1], SeqMax(Tail(a)))

RECURSIVE SeqSum(_)
SeqSum(a) == IF a = <<>> THEN Zero ELSE Add(Head(a), SeqSum(Tail(a)))

----------------------------------------------------------------------------
(* module-level functions of stereo_combination.py *)

\* ufunc.at(np.zeros(n_array_events), indices, tel_data) for ufunc np.add:
\* every element of tel_data is added to the slot its index names
RECURSIVE add_at(_, _, _)
add_at(combined_values, indices, tel_data) ==
    IF tel_data = <<>> THEN combined_values
    ELSE add_at([combined_values EXCEPT ![Head(indices)] = Add(@, Head(tel_data))],
                Tail(indices), Tail(tel_data))

calculate_ufunc_of_telescope_values(tel_data, n_array_events, indices) ==
    add_at(full(n_array_events, Zero), indices, tel_data)

\* mutant: the maximum is subtracted from the weights (and 1 added), not
\* divided out
normalized_weights_shifted(w) ==
    [i \in DOMAIN w |-> Add(Sub(w[i], SeqMax(w)), One)]

\* weights / weights.max(): the maximum of all the weights handed in
normalized_weights(w) == [i \in DOMAIN w |-> Div(w[i], SeqMax(w))]

\* mutant: the values are summed without their weights
weighted_mean_ufunc_plain_sum(tel_values, w, n_array_events, indices) ==
    LET wmax == SeqMax(w)
        wn == [i \in DOMAIN w |-> Div(w[i], wmax)]
        sum_prediction ==
            calculate_ufunc_of_telescope_values(
                [i \in DOMAIN wn |-> tel_values[i]], n_array_events, indices)
        sum_of_weights ==
            calculate_ufunc_of_telescope_values(wn, n_array_events, indices)
    IN  [g \in 1..n_array_events |->
            IF Greater(sum_of_weights[g], Zero)
            THEN Div(sum_prediction[g], sum_of_weights[g])
            ELSE NaN]

\* mutant: the weights are divided by their maximum in the sum of the
\* predictions only, the sum of the weights is taken of the raw weights
weighted_mean_ufunc_raw_weight_sum(tel_values, w, n_array_events, indices) ==
    LET wmax == SeqMax(w)
        wn == [i \in DOMAIN w |-> Div(w[i], wmax)]
        sum_prediction ==
            calculate_ufunc_of_telescope_values(
                [i \in DOMAIN wn |-> Mul(tel_values[i], wn[i])], n_array_events, indices)
        sum_of_weights ==
            calculate_ufunc_of_telescope_values(w, n_array_events, indices)
    IN  [g \in 1..n_array_events |->
            IF Greater(sum_of_weights[g], Zero)
            THEN Div(sum_prediction[g], sum_of_weights[g])
            ELSE NaN]

\* mutant: the means start as np.zeros, not as np.full(n, np.nan)
weighted_mean_ufunc_zeros(tel_values, w, n_array_events, indices) ==
    LET wmax == SeqMax(w)
        wn == [i \in DOMAIN w |-> Div(w[i], wmax)]
        sum_prediction ==
            calculate_ufunc_of_telescope_values(
                [i \in DOMAIN wn |-> Mul(tel_values[i], wn[i])], n_array_events, indices)
        sum_of_weights ==
            calculate_ufunc_of_telescope_values(wn, n_array_events, indices)
    IN  [g \in 1..n_array_events |->
            IF Greater(sum_of_weights[g], Zero)
            THEN Div(sum_prediction[g], sum_of_weights[g])
            ELSE Zero]

weighted_mean_ufunc(tel_values, w, n_array_events, indices) ==
    LET wn == normalized_weights(w)
        sum_prediction ==
            calculate_ufunc_of_telescope_values(
                [i \in DOMAIN wn |-> Mul(tel_values[i], wn[i])], n_array_events, indices)
        sum_of_weights ==
            calculate_ufunc_of_telescope_values(wn, n_array_events, indices)
    IN  [g \in 1..n_array_events |->
            IF Greater(sum_of_weights[g], Zero)
            THEN Div(sum_prediction[g], sum_of_weights[g])
            ELSE NaN]

----------------------------------------------------------------------------
(* astropy coordinates, for angles that are multiples of 90 degrees *)

CosDeg(a) == CASE a % 360 = 0 -> 1 [] a % 360 = 180 -> -1 [] OTHER -> 0
SinDeg(a) == CosDeg(a - 90)

\* mutant: x and y of the unit vector change places
cartesian_swapped_xy(alt, az) ==
    [x |-> Rat(CosDeg(alt) * SinDeg(az), 1),
     y |-> Rat(CosDeg(alt) * CosDeg(az), 1),
     z |-> Rat(SinDeg(alt), 1)]

\* SkyCoord(alt, az, frame=AltAz()).cartesian.get_xyz() of one direction
cartesian(alt, az) ==
    [x |-> Rat(CosDeg(alt) * CosDeg(az), 1),
     y |-> Rat(CosDeg(alt) * SinDeg(az), 1),
     z |-> Rat(SinDeg(alt), 1)]

Sign(i) == IF i > 0 THEN 1 ELSE IF i < 0 THEN -1 ELSE 0

\* arctan2(y, x) in degrees: exact on the axes (arctan2(0, 0) is 0), else
\* the term of the primitive integer vector along (x, y); wrap_at is 360
\* for a longitude and 180 for a latitude
arctan2(y, x, wrap_at) ==
    LET X == x.n * y.d
        Y == y.n * x.d
        g == Gcd(Abs(X), Abs(Y))
    IN  IF g = 0 \/ (Y = 0 /\ X > 0) THEN Rat(0, 1)
        ELSE IF X = 0 /\ Y > 0 THEN Rat(90, 1)
        ELSE IF Y = 0 /\ X < 0 THEN Rat(180, 1)
        ELSE IF X = 0 /\ Y < 0 THEN Rat(IF wrap_at = 360 THEN 270 ELSE -90, 1)
        ELSE [k |-> "arctan2", y |-> Y \div g, x |-> X \div g]

\* CartesianRepresentation(x, y, z).represent_as(UnitSphericalRepresentation)
\* read as alt = lat, az = lon: lon = arctan2(y, x) and
\* lat = arctan2(z, hypot(x, y)); a NaN component makes both NaN
represent_as_unit_spherical(x, y, z) ==
    IF IsNaN(x) \/ IsNaN(y) \/ IsNaN(z) THEN [alt |-> NaN, az |-> NaN]
    ELSE LET h2 == Add(Mul(x, x), Mul(y, y))
         IN  [alt |-> IF IsRat(Sqrt(h2)) THEN arctan2(z, Sqrt(h2), 180)
                      ELSE IF z.n = 0 THEN Rat(0, 1)
                      ELSE [k |-> "arctan2h", s |-> Sign(z.n),
                            t2 |-> Div(Mul(z, z), h2)],
              az |-> arctan2(y, x, 360)]

----------------------------------------------------------------------------
(* StereoMeanCombiner *)

\* data is [type |-> "Container", hillas |-> ..] for an
\* ImageParametersContainer, [type |-> "Table", rows |-> ..] for a table,
\* and of any other type otherwise (None: [type |-> "NoneType"])
Raise(exc) == [k |-> "raise", exc |-> exc]

\* mutant: the combiner keeps state: once it has been called it weighs
\* with strategy none
calculate_weights_none_after_first_call(data) ==
    LET strategy == IF calls = <<>> THEN weights ELSE "none" IN
    IF data.type = "Container" THEN
        IF strategy = "intensity" THEN data.hillas.intensity
        ELSE IF strategy = "konrad"
        THEN Div(Mul(data.hillas.intensity, data.hillas.length), data.hillas.width)
        ELSE One
    ELSE IF data.type = "Table" THEN
        IF strategy = "intensity"
        THEN [i \in DOMAIN data.rows |-> data.rows[i].hillas_intensity]
        ELSE IF strategy = "konrad"
        THEN [i \in DOMAIN data.rows |->
                Div(Mul(data.rows[i].hillas_intensity, data.rows[i].hillas_length),
                    data.rows[i].hillas_width)]
        ELSE [i \in DOMAIN data.rows |-> One]
    ELSE Raise("TypeError")

\* mutant: the ratio of strategy konrad upside down, width over length
calculate_weights_width_over_length(data) ==
    IF data.type = "Container" THEN
        IF weights = "intensity" THEN data.hillas.intensity
        ELSE IF weights = "konrad"
        THEN Div(Mul(data.hillas.intensity, data.hillas.width), data.hillas.length)
        ELSE One
    ELSE IF data.type = "Table" THEN
        IF weights = "intensity"
        THEN [i \in DOMAIN data.rows |-> data.rows[i].hillas_intensity]
        ELSE IF weights = "konrad"
        THEN [i \in DOMAIN data.rows |->
                Div(Mul(data.rows[i].hillas_intensity, data.rows[i].hillas_width),
                    data.rows[i].hillas_length)]
        ELSE [i \in DOMAIN data.rows |-> One]
    ELSE Raise("TypeError")

\* mutant: strategy none answers 1 before the type of data is looked at
calculate_weights_none_first(data) ==
    IF weights = "none" THEN
        IF data.type = "Table" THEN [i \in DOMAIN data.rows |-> One] ELSE One
    ELSE IF data.type = "Container" THEN
        IF weights = "intensity" THEN data.hillas.intensity
        ELSE Div(Mul(data.hillas.intensity, data.hillas.length), data.hillas.width)
    ELSE IF data.type = "Table" THEN
        IF weights = "intensity"
        THEN [i \in DOMAIN data.rows |-> data.rows[i].hillas_intensity]
        ELSE [i \in DOMAIN data.rows |->
                Div(Mul(data.rows[i].hillas_intensity, data.rows[i].hillas_length),
                    data.rows[i].hillas_width)]
    ELSE Raise("TypeError")

calculate_weights(data) ==
    IF data.type = "Container" THEN
        IF weights = "intensity" THEN data.hillas.intensity
        ELSE IF weights = "konrad"
        THEN Div(Mul(data.hillas.intensity, data.hillas.length), data.hillas.width)
        ELSE One
    ELSE IF data.type = "Table" THEN
        IF weights = "intensity"
        THEN [i \in DOMAIN data.rows |-> data.rows[i].hillas_intensity]
        ELSE IF weights = "konrad"
        THEN [i \in DOMAIN data.rows |->
                Div(Mul(data.rows[i].hillas_intensity, data.rows[i].hillas_length),
                    data.rows[i].hillas_width)]
        ELSE [i \in DOMAIN data.rows |-> One]
    ELSE Raise("TypeError")

Table(rows) == [type |-> "Table", rows |-> rows]

\* mutant: the tel_id is put in front of the list
RECURSIVE collect_tel_ids_in_front(_, _, _)
collect_tel_ids_in_front(tel_ids, indices, tel_id_column) ==
    IF indices = <<>> THEN tel_ids
    ELSE collect_tel_ids_in_front(
            [tel_ids EXCEPT ![Head(indices)] = <<Head(tel_id_column)>> \o @],
            Tail(indices), Tail(tel_id_column))

\* the tel_ids loop at the end of predict_table
RECURSIVE collect_tel_ids(_, _, _)
collect_tel_ids(tel_ids, indices, tel_id_column) ==
    IF indices = <<>> THEN tel_ids
    ELSE collect_tel_ids(
            [tel_ids EXCEPT ![Head(indices)] = Append(@, Head(tel_id_column))],
            Tail(indices), Tail(tel_id_column))

\* mutant: the output columns get the prefix of the input columns,
\* f"{self.prefix}_tel"
colname_with_tel(p, name) == p \o "_tel_" \o name

\* f"{self.prefix}_energy" and the like
colname(p, name) == p \o "_" \o name

\* add_defaults_and_meta(stereo_table, container, prefix) of .utils, as far
\* as the column names go: it sets descriptions and leaves the columns as
\* they are, every field of the container having its column by then
add_defaults_and_meta(colnames, container, p) == colnames

\* mutant: the scalar reaches the first row only, the others are 0
assign_scalar_to_first_row(n, v) == [g \in 1..n |-> IF g = 1 THEN v ELSE Zero]

\* stereo_table[name] = scalar: the scalar in every row of the column
assign_scalar(n, v) == [g \in 1..n |-> v]

\* predict_table(mono_predictions): the returned table as its column names
\* and the sequence of its rows, or the exception raised
predict_table(table) ==
    LET valid == [i \in DOMAIN table |-> table[i].is_valid]
        valid_predictions == MaskSelect(table, valid)
        u == unique(table)
        n_array_events == Len(u.array_events)
        indices_valid == MaskSelect(u.indices, valid)
        w == calculate_weights(Table(valid_predictions))
        values == [i \in DOMAIN valid_predictions |-> valid_predictions[i].value]
        tel_ids == collect_tel_ids(
                       full(n_array_events, <<>>), indices_valid,
                       [i \in DOMAIN valid_predictions |-> valid_predictions[i].tel_id])
    IN
    IF property = "classification" THEN
        LET stereo_predictions ==
                IF Len(valid_predictions) > 0
                THEN weighted_mean_ufunc(values, w, n_array_events, indices_valid)
                ELSE full(n_array_events, NaN)
        IN  [raised |-> "none",
             colnames |-> add_defaults_and_meta(
                <<"obs_id", "event_id", colname(prefix, "prediction"),
                  colname(prefix, "is_valid"), colname(prefix, "goodness_of_fit"),
                  colname(prefix, "telescopes")>>,
                "ParticleClassificationContainer", prefix),
             rows |-> [g \in 1..n_array_events |->
                [obs_id |-> u.array_events[g][1],
                 event_id |-> u.array_events[g][2],
                 prediction |-> stereo_predictions[g],
                 is_valid |-> isfinite(stereo_predictions[g]),
                 goodness_of_fit |-> assign_scalar(n_array_events, NaN)[g],
                 telescopes |-> tel_ids[g]]]]
    ELSE IF property = "energy" THEN
        LET mono_energies ==
                IF log_target THEN [i \in DOMAIN values |-> Log(values[i])]
                ELSE values
            stereo_energy ==
                weighted_mean_ufunc(mono_energies, w, n_array_events, indices_valid)
            repeated == MaskSelect(repeat(stereo_energy, u.multiplicity), valid)
            variance ==
                weighted_mean_ufunc(
                    [i \in DOMAIN mono_energies |->
                        Mul(Sub(mono_energies[i], repeated[i]),
                            Sub(mono_energies[i], repeated[i]))],
                    w, n_array_events, indices_valid)
            std == [g \in 1..n_array_events |-> Sqrt(variance[g])]
            have == Len(valid_predictions) > 0
            energy(g) == IF ~have THEN NaN
                         ELSE IF log_target THEN Exp(stereo_energy[g])
                         ELSE stereo_energy[g]
            uncert(g) == IF ~have THEN NaN
                         ELSE IF log_target THEN Exp(std[g])
                         ELSE std[g]
        IN  [raised |-> "none",
             colnames |-> add_defaults_and_meta(
                <<"obs_id", "event_id", colname(prefix, "energy"),
                  colname(prefix, "energy_uncert"), colname(prefix, "is_valid"),
                  colname(prefix, "goodness_of_fit"), colname(prefix, "telescopes")>>,
                "ReconstructedEnergyContainer", prefix),
             rows |-> [g \in 1..n_array_events |->
                [obs_id |-> u.array_events[g][1],
                 event_id |-> u.array_events[g][2],
                 energy |-> energy(g),
                 energy_uncert |-> uncert(g),
                 is_valid |-> isfinite(energy(g)),
                 goodness_of_fit |-> assign_scalar(n_array_events, NaN)[g],
                 telescopes |-> tel_ids[g]]]]
    ELSE IF property = "geometry" THEN
        LET mono == [i \in DOMAIN values |-> cartesian(values[i].alt, values[i].az)]
            stereo_x == weighted_mean_ufunc([i \in DOMAIN mono |-> mono[i].x],
                                            w, n_array_events, indices_valid)
            stereo_y == weighted_mean_ufunc([i \in DOMAIN mono |-> mono[i].y],
                                            w, n_array_events, indices_valid)
            stereo_z == weighted_mean_ufunc([i \in DOMAIN mono |-> mono[i].z],
                                            w, n_array_events, indices_valid)
            mean_altaz(g) ==
                IF Len(valid_predictions) > 0
                THEN represent_as_unit_spherical(stereo_x[g], stereo_y[g], stereo_z[g])
                ELSE [alt |-> NaN, az |-> NaN]
        IN  [raised |-> "none",
             colnames |-> add_defaults_and_meta(
                <<"obs_id", "event_id", colname(prefix, "alt"),
                  colname(prefix, "alt_uncert"), colname(prefix, "az"),
                  colname(prefix, "az_uncert"), colname(prefix, "is_valid"),
                  colname(prefix, "goodness_of_fit"), colname(prefix, "telescopes")>>,
                "ReconstructedGeometryContainer", prefix),
             rows |-> [g \in 1..n_array_events |->
                [obs_id |-> u.array_events[g][1],
                 event_id |-> u.array_events[g][2],
                 alt |-> mean_altaz(g).alt,
                 alt_uncert |-> assign_scalar(n_array_events, NaN)[g],
                 az |-> mean_altaz(g).az,
                 az_uncert |-> assign_scalar(n_array_events, NaN)[g],
                 is_valid |-> isfinite(mean_altaz(g).alt) /\ isfinite(mean_altaz(g).az),
                 goodness_of_fit |-> assign_scalar(n_array_events, NaN)[g],
                 telescopes |-> tel_ids[g]]]]
    ELSE [raised |-> "NotImplementedError", colnames |-> <<>>, rows |-> <<>>]

----------------------------------------------------------------------------
(* event-wise combination *)

\* An event is [dl2_tel, dl1_tel, stereo]:
\*   dl2_tel  event.dl2.tel, an ordered map, as the sequence of its items
\*            [tel_id, is_valid, value]: value[q] is the telescope's mono
\*            prediction of property q; a telescope has a prediction of
\*            every property under every prefix, alike for the prefixes,
\*            and is_valid is the flag of them all;
\*   dl1_tel  event.dl1.tel: for every telescope whether it has an entry and
\*            the entry's parameters (None when the entry has none);
\*   stereo   event.dl2.stereo: per property and prefix one slot.
None == [type |-> "NoneType"]
NoContainer == [container |-> "none"]

\* np.average(values, weights=w) of non-empty sequences
average(values, w) ==
    LET scl == SeqSum(w)
    IN  IF IsRat(scl) /\ scl.n = 0 THEN Raise("ZeroDivisionError")
        ELSE Div(SeqSum([i \in DOMAIN values |-> Mul(values[i], w[i])]), scl)

\* np.cov(values, aweights=w) of one variable: ddof is 1, the normalisation
\* is fact = sum(w) - sum(w * w) / sum(w), set to 0 if not positive, and the
\* result is sum(w * (v - avg) ** 2) * (1 / fact).  With non-negative
\* weights fact = 0 only if at most one weight is positive, and then the
\* sum is 0 and the result 0 * inf = NaN.
cov(values, w) ==
    LET w_sum == SeqSum(w)
        avg == Div(SeqSum([i \in DOMAIN values |-> Mul(values[i], w[i])]), w_sum)
        fact == Sub(w_sum, Div(SeqSum([i \in DOMAIN w |-> Mul(w[i], w[i])]), w_sum))
        c == SeqSum([i \in DOMAIN values |->
                Mul(w[i], Mul(Sub(values[i], avg), Sub(values[i], avg)))])
    IN  IF Greater(fact, Zero) THEN Div(c, fact) ELSE NaN

\* mutant: is_valid of the mono prediction is not looked at
ValidItems_unfiltered(items) == items

\* the items of dl2_tel with a valid mono prediction, in order
RECURSIVE ValidItems(_)
ValidItems(items) ==
    IF items = <<>> THEN <<>>
    ELSE IF Head(items).is_valid THEN <<Head(items)>> \o ValidItems(Tail(items))
    ELSE ValidItems(Tail(items))

\* the exception the loop of _combine_energy raises, or "none": at the first
\* valid telescope without an entry in dl1.tel a ValueError, at the first
\* whose parameters _calculate_weights rejects a TypeError
RECURSIVE energy_loop_raises(_, _)
energy_loop_raises(items, dl1_tel) ==
    IF items = <<>> THEN "none"
    ELSE IF ~dl1_tel[Head(items).tel_id].present THEN "ValueError"
    ELSE IF calculate_weights(dl1_tel[Head(items).tel_id].parameters).k = "raise"
    THEN calculate_weights(dl1_tel[Head(items).tel_id].parameters).exc
    ELSE energy_loop_raises(Tail(items), dl1_tel)

\* _combine_energy(event): [raised, event] with the event as the call
\* leaves it
combine_energy(ev) ==
    LET items == ValidItems(ev.dl2_tel)
        raised == energy_loop_raises(items, ev.dl1_tel)
        ids == [i \in DOMAIN items |-> items[i].tel_id]
        values0 == [i \in DOMAIN items |-> items[i].value["energy"]]
        w0 == [i \in DOMAIN items |->
                  calculate_weights(ev.dl1_tel[items[i].tel_id].parameters)]
        wmax == SeqMax(w0)
        w == [i \in DOMAIN w0 |-> Div(w0[i], wmax)]
        values == IF log_target THEN [i \in DOMAIN values0 |-> Log(values0[i])]
                  ELSE values0
        mean0 == average(values, w)
        std0 == Sqrt(cov(values, w))
        mean == IF Len(items) = 0 THEN NaN
                ELSE IF log_target THEN Exp(mean0) ELSE mean0
        std == IF Len(items) = 0 THEN NaN
               ELSE IF log_target THEN Exp(std0) ELSE std0
    IN  IF raised # "none" THEN [raised |-> raised, event |-> ev]
        ELSE IF Len(items) > 0 /\ mean0.k = "raise"
        THEN [raised |-> mean0.exc, event |-> ev]
        ELSE [raised |-> "none",
              event |-> [ev EXCEPT !.stereo["energy"][prefix] =
                  [container |-> "ReconstructedEnergyContainer",
                   energy |-> mean,
                   energy_uncert |-> std,
                   telescopes |-> ids,
                   is_valid |-> Len(items) > 0,
                   prefix |-> prefix]]]

\* event.dl1.tel[tel_id] on a Map (a defaultdict) makes the entry if there
\* is none, with parameters None
RECURSIVE touch_dl1(_, _)
touch_dl1(dl1_tel, items) ==
    IF items = <<>> THEN dl1_tel
    ELSE touch_dl1(
            [dl1_tel EXCEPT ![Head(items).tel_id] =
                IF @.present THEN @ ELSE [present |-> TRUE, parameters |-> None]],
            Tail(items))

\* _combine_classification(event)
combine_classification(ev) ==
    LET items == ValidItems(ev.dl2_tel)
        ids == [i \in DOMAIN items |-> items[i].tel_id]
        values == [i \in DOMAIN items |-> items[i].value["classification"]]
        dl1(i) == ev.dl1_tel[items[i].tel_id].parameters
        w == [i \in DOMAIN items |->
                 IF dl1(i).type # "NoneType" THEN calculate_weights(dl1(i)) ELSE One]
        touched == [ev EXCEPT !.dl1_tel = touch_dl1(@, items)]
        mean == IF Len(items) > 0 THEN average(values, w) ELSE NaN
    IN  IF mean.k = "raise" THEN [raised |-> mean.exc, event |-> touched]
        ELSE [raised |-> "none",
              event |-> [touched EXCEPT !.stereo["classification"][prefix] =
                  [container |-> "ParticleClassificationContainer",
                   prediction |-> mean,
                   telescopes |-> ids,
                   is_valid |-> Len(items) > 0,
                   prefix |-> prefix]]]

\* _combine_disp(event); __call__ never gets to it
combine_disp(ev) ==
    LET items == ValidItems(ev.dl2_tel)
        ids == [i \in DOMAIN items |-> items[i].tel_id]
        mono == [i \in DOMAIN items |->
                    cartesian(items[i].value["geometry"].alt, items[i].value["geometry"].az)]
        dl1(i) == ev.dl1_tel[items[i].tel_id].parameters
        w == [i \in DOMAIN items |->
                 IF dl1(i).type # "NoneType" THEN calculate_weights(dl1(i)) ELSE One]
        touched == [ev EXCEPT !.dl1_tel = touch_dl1(@, items)]
        stereo_x == average([i \in DOMAIN mono |-> mono[i].x], w)
        stereo_y == average([i \in DOMAIN mono |-> mono[i].y], w)
        stereo_z == average([i \in DOMAIN mono |-> mono[i].z], w)
        mean_altaz == IF Len(items) > 0
                      THEN represent_as_unit_spherical(stereo_x, stereo_y, stereo_z)
                      ELSE [alt |-> NaN, az |-> NaN]
    IN  IF Len(items) > 0 /\ stereo_x.k = "raise"
        THEN [raised |-> stereo_x.exc, event |-> touched]
        ELSE [raised |-> "none",
              event |-> [touched EXCEPT !.stereo["geometry"][prefix] =
                  [container |-> "ReconstructedGeometryContainer",
                   alt |-> mean_altaz.alt,
                   az |-> mean_altaz.az,
                   telescopes |-> ids,
                   is_valid |-> Len(items) > 0,
                   prefix |-> prefix]]]

\* __call__(event): the geometry branch reads self.combine_property, an
\* attribute the class does not have, which raises AttributeError for every
\* property that is neither energy nor classification
call(ev) ==
    IF property = "energy" THEN combine_energy(ev)
    ELSE IF property = "classification" THEN combine_classification(ev)
    ELSE [raised |-> "AttributeError", event |-> ev]

----------------------------------------------------------------------------
(* Inputs *)

\* the largest number of rows of an enumerated input table
MaxRows == 3

\* the largest number of calls of combiners on one event
MaxCalls == 2

\* the largest number of calls of one combiner
MaxReuse == 3

ArrayEvents == {<<1, 2>>, <<2, 1>>}   \* (obs_id, event_id)
Telescopes == {1, 2, 3}
Properties == {"energy", "classification", "geometry"}
WeightOptions == {"none", "intensity", "konrad"}
Prefixes == {"dummy", "classifier"}

\* image parameters of the three telescopes: weights 1, 2, 0 by intensity
\* and 2, 2, 0 by intensity * length / width
Hillas(tel) ==
    CASE tel = 1 -> [intensity |-> Rat(1, 1), length |-> Rat(4, 1), width |-> Rat(2, 1)]
      [] tel = 2 -> [intensity |-> Rat(2, 1), length |-> Rat(1, 1), width |-> Rat(1, 1)]
      [] tel = 3 -> [intensity |-> Rat(0, 1), length |-> Rat(1, 1), width |-> Rat(1, 1)]

NoHillas == [intensity |-> NaN, length |-> NaN, width |-> NaN]

\* the mono prediction of telescope tel for array event key: an energy in
\* TeV (a power of two), a score in [0, 1], or a direction in degrees
MonoValue(prop, key, tel) ==
    IF prop = "energy" THEN
        IF key = <<1, 2>> THEN <<Rat(1, 1), Rat(4, 1), Rat(2, 1)>>[tel]
        ELSE <<Rat(2, 1), Rat(2, 1), Rat(1, 2)>>[tel]
    ELSE IF prop = "classification" THEN
        IF key = <<1, 2>> THEN <<Rat(1, 1), Rat(0, 1), Rat(1, 2)>>[tel]
        ELSE <<Rat(0, 1), Rat(1, 2), Rat(1, 1)>>[tel]
    ELSE
        IF key = <<1, 2>>
        THEN << [alt |-> 0, az |-> 0], [alt |-> 0, az |-> 90], [alt |-> 90, az |-> 0] >>[tel]
        ELSE << [alt |-> 0, az |-> 90], [alt |-> 0, az |-> 270], [alt |-> 0, az |-> 180] >>[tel]

Row(key, tel, is_valid, value, hillas) ==
    [obs_id |-> key[1], event_id |-> key[2], tel_id |-> tel,
     is_valid |-> is_valid, value |-> value,
     hillas_intensity |-> hillas.intensity,
     hillas_length |-> hillas.length,
     hillas_width |-> hillas.width]

\* the telescope events a table may hold, for one property
RowPool(prop) ==
    {Row(key, tel, v, MonoValue(prop, key, tel), Hillas(tel)) :
        key \in ArrayEvents, tel \in Telescopes, v \in BOOLEAN}

\* the tables of at most MaxRows telescope events, in any row order, no
\* telescope event twice
Tables(prop) ==
    UNION {{t \in [1..n -> RowPool(prop)] :
                \A i, j \in 1..n :
                    i # j => <<KeyOf(t[i]), t[i].tel_id>> # <<KeyOf(t[j]), t[j].tel_id>>}
           : n \in 0..MaxRows}

\* the table of the unit tests (tests/test_stereo_combination.py,
\* mono_table), with the energy columns of prefix "dummy" or the
\* classification columns of prefix "classifier"
FixtureRow(i, prop) ==
    LET obs_id == <<1, 1, 1, 1, 1, 2>>
        event_id == <<1, 1, 1, 2, 2, 1>>
        tel_id == <<1, 2, 3, 5, 7, 1>>
        intensity == <<1, 2, 0, 1, 5, 9>>
        width == <<Rat(1, 10), Rat(2, 10), Rat(1, 10), Rat(1, 10), Rat(2, 10), Rat(1, 10)>>
        energy == <<Rat(1, 1), Rat(10, 1), Rat(4, 1), Rat(1, 2), Rat(7, 10), Rat(1, 1)>>
        dummy_is_valid == <<TRUE, TRUE, TRUE, TRUE, FALSE, FALSE>>
        prediction == <<Rat(1, 1), Rat(0, 1), Rat(1, 2), Rat(0, 1), Rat(6, 10), Rat(1, 1)>>
        classifier_is_valid == <<TRUE, TRUE, FALSE, TRUE, TRUE, TRUE>>
    IN  Row(<<obs_id[i], event_id[i]>>, tel_id[i],
            IF prop = "energy" THEN dummy_is_valid[i] ELSE classifier_is_valid[i],
            IF prop = "energy" THEN energy[i] ELSE prediction[i],
            [intensity |-> Rat(intensity[i], 1),
             length |-> Mul(Rat(3, 1), width[i]),
             width |-> width[i]])

mono_table(prop) == [i \in 1..6 |-> FixtureRow(i, prop)]

\* the same rows as ApplyModels._apply stacks them: telescope by telescope
mono_table_by_telescope(prop) ==
    [i \in 1..6 |-> FixtureRow(<<1, 6, 2, 3, 4, 5>>[i], prop)]

\* the input tables of one configuration
InputTables(prop, log) ==
    Tables(prop) \cup
    (IF prop \in {"energy", "classification"} /\ ~log
     THEN {mono_table(prop), mono_table_by_telescope(prop)} ELSE {})

\* event.dl2.stereo of a fresh event: no container under any prefix
NoStereo == [q \in Properties |-> [p \in Prefixes |-> NoContainer]]

\* dl1.tel[tel]: image parameters, an entry without parameters, no entry
Dl1Options(tel) ==
    {[present |-> TRUE, parameters |-> [type |-> "Container", hillas |-> Hillas(tel)]],
     [present |-> TRUE, parameters |-> None],
     [present |-> FALSE, parameters |-> None]}

NoDl1 == [present |-> FALSE, parameters |-> None]

\* what an event holds of one telescope: a valid mono prediction with any
\* of the three dl1 entries, or an invalid one (whose dl1 entry is not read)
TelOptions(key, tel) ==
    {[item |-> [tel_id |-> tel, is_valid |-> TRUE,
                value |-> [q \in Properties |-> MonoValue(q, key, tel)]],
      dl1 |-> d] : d \in Dl1Options(tel)}
    \cup {[item |-> [tel_id |-> tel, is_valid |-> FALSE,
                     value |-> [q \in Properties |-> MonoValue(q, key, tel)]],
           dl1 |-> CHOOSE d \in Dl1Options(tel) : d.parameters.type = "Container"]}

\* the events: any of the telescopes under dl2.tel, in any insertion order
Events ==
    UNION {
        {[index |-> key,
          dl2_tel |-> [i \in 1..n |-> tels[i].item],
          dl1_tel |-> [t \in Telescopes |->
                          IF \E i \in 1..n : tels[i].item.tel_id = t
                          THEN (CHOOSE x \in {tels[i] : i \in 1..n} : x.item.tel_id = t).dl1
                          ELSE NoDl1],
          stereo |-> NoStereo] :
            tels \in {o \in [1..n -> UNION {TelOptions(key, t) : t \in Telescopes}] :
                        \A i, j \in 1..n : i # j => o[i].item.tel_id # o[j].item.tel_id}}
        : n \in 0..Cardinality(Telescopes), key \in ArrayEvents}

\* no event was read: the combiner is used on a table only
NoEvent ==
    [index |-> <<0, 0>>, dl2_tel |-> <<>>,
     dl1_tel |-> [t \in Telescopes |-> NoDl1],
     stereo |-> NoStereo]

\* the table holding exactly the telescope rows of an event
event_table(ev) ==
    [i \in DOMAIN ev.dl2_tel |->
        Row(ev.index, ev.dl2_tel[i].tel_id, ev.dl2_tel[i].is_valid,
            ev.dl2_tel[i].value[property],
            IF ev.dl1_tel[ev.dl2_tel[i].tel_id].parameters.type = "Container"
            THEN ev.dl1_tel[ev.dl2_tel[i].tel_id].parameters.hillas
            ELSE NoHillas)]

----------------------------------------------------------------------------
(* ApplyModels (tools/apply.py): the telescope loop of the bulk tool.  The  *)
(* tool is [subarray, models, norm_regressor, sign_classifier, events,     *)
(* log, written, raised]: subarray is loader.subarray.tel as the sequence  *)
(* of its items [tel_id, tel], models the telescope types the              *)
(* reconstructor has a model for (norm_regressor and sign_classifier those *)
(* of the two disp models), events[tel_id] the array events               *)
(* loader.read_telescope_events([tel_id]) has rows for, log the warnings   *)
(* logged and written the telescope tables written to the output file.     *)

TelescopeTypes == {"LST", "MST"}

Warning(msg, tel_id) == [level |-> "warning", msg |-> msg, tel_id |-> tel_id]

\* self.loader.read_telescope_events([tel_id]): one row per array event
\* the telescope took part in, with its image parameters
read_telescope_events(t, tel_id) ==
    [i \in DOMAIN t.events[tel_id] |->
        [key |-> t.events[tel_id][i], tel_id |-> tel_id, hillas |-> Hillas(tel_id)]]

\* hstack([table, reconstructor.predict_table(tel, table)]): every row of
\* the telescope with the columns of its prediction
hstack_predictions(prop, table) ==
    [i \in DOMAIN table |->
        Row(table[i].key, table[i].tel_id, TRUE,
            MonoValue(prop, table[i].key, table[i].tel_id), table[i].hillas)]

\* vstack(tel_tables)
RECURSIVE vstack(_)
vstack(tel_tables) ==
    IF tel_tables = <<>> THEN <<>> ELSE Head(tel_tables) \o vstack(Tail(tel_tables))

NoneApplied == [log |-> <<>>, written |-> <<>>, tel_tables |-> <<>>]

\* mutant: the loop ends at the first telescope without a model or
\* without events (break for continue)
RECURSIVE apply_loop_break(_, _, _, _, _)
apply_loop_break(items, t, parameter, p, acc) ==
    IF items = <<>> THEN acc
    ELSE LET tel_id == Head(items).tel_id
             table == read_telescope_events(t, tel_id)
         IN  IF Head(items).tel \notin t.models
             THEN [acc EXCEPT !.log = Append(@, Warning("No model", tel_id))]
             ELSE IF Len(table) = 0
             THEN [acc EXCEPT !.log = Append(@, Warning("No events", tel_id))]
             ELSE apply_loop_break(Tail(items), t, parameter, p,
                    [acc EXCEPT
                        !.written = Append(@, [path |-> "/dl2/event/telescope/"
                                                        \o parameter \o "/" \o p,
                                               tel_id |-> tel_id]),
                        !.tel_tables = Append(@, hstack_predictions(parameter, table))])

\* the loop of _apply over self.loader.subarray.tel.items()
RECURSIVE apply_loop(_, _, _, _, _)
apply_loop(items, t, parameter, p, acc) ==
    IF items = <<>> THEN acc
    ELSE LET tel_id == Head(items).tel_id
             table == read_telescope_events(t, tel_id)
         IN  IF Head(items).tel \notin t.models
             THEN apply_loop(Tail(items), t, parameter, p,
                    [acc EXCEPT !.log = Append(@, Warning("No model", tel_id))])
             ELSE IF Len(table) = 0
             THEN apply_loop(Tail(items), t, parameter, p,
                    [acc EXCEPT !.log = Append(@, Warning("No events", tel_id))])
             ELSE apply_loop(Tail(items), t, parameter, p,
                    [acc EXCEPT
                        !.written = Append(@, [path |-> "/dl2/event/telescope/"
                                                        \o parameter \o "/" \o p,
                                               tel_id |-> tel_id]),
                        !.tel_tables = Append(@, hstack_predictions(parameter, table))])

\* the loop of _apply_disp
RECURSIVE apply_disp_loop(_, _, _)
apply_disp_loop(items, t, acc) ==
    IF items = <<>> THEN acc
    ELSE LET tel_id == Head(items).tel_id
             table == read_telescope_events(t, tel_id)
         IN  IF Head(items).tel \notin t.norm_regressor
             THEN apply_disp_loop(Tail(items), t,
                    [acc EXCEPT !.log = Append(@, Warning("No disp regressor model", tel_id))])
             ELSE IF Head(items).tel \notin t.sign_classifier
             THEN apply_disp_loop(Tail(items), t,
                    [acc EXCEPT !.log = Append(@, Warning("No sign classifier model", tel_id))])
             ELSE IF Len(table) = 0
             THEN apply_disp_loop(Tail(items), t,
                    [acc EXCEPT !.log = Append(@, Warning("No events", tel_id))])
             ELSE apply_disp_loop(Tail(items), t,
                    [acc EXCEPT
                        !.written = @ \o
                            <<[path |-> "/dl2/event/telescope/geometry/disp", tel_id |-> tel_id],
                              [path |-> "/dl2/event/telescope/disp/disp", tel_id |-> tel_id]>>,
                        !.tel_tables = Append(@, hstack_predictions("geometry", table))])

\* what a loop leaves: ValueError if no telescope gave a table, else the
\* stacked table
stacked(acc) ==
    [log |-> acc.log, written |-> acc.written,
     raised |-> IF Len(acc.tel_tables) = 0 THEN "ValueError" ELSE "none",
     table |-> vstack(acc.tel_tables)]

\* ApplyModels._apply(reconstructor, parameter), prefix p the model_cls of
\* the reconstructor
apply(t, parameter, p) == stacked(apply_loop(t.subarray, t, parameter, p, NoneApplied))

\* ApplyModels._apply_disp(pointing_altitude, pointing_azimuth)
apply_disp(t) == stacked(apply_disp_loop(t.subarray, t, NoneApplied))

----------------------------------------------------------------------------
(* The state machine: a combiner is configured and given a table, or an    *)
(* event and the table of that event's rows; predict_table and __call__    *)
(* are then applied.                                                       *)

NotCalled == [raised |-> "not called", colnames |-> <<>>, rows |-> <<>>]

\* no ApplyModels tool is involved
NoTool == [subarray |-> <<>>, models |-> {}, norm_regressor |-> {}, sign_classifier |-> {},
           events |-> <<>>, log |-> <<>>, written |-> <<>>, raised |-> "not run"]

\* the prefix the unit tests give the predictions of a property
TestPrefix(prop) == IF prop = "classification" THEN "classifier" ELSE "dummy"

Init ==
    /\ property \in Properties
    /\ weights \in WeightOptions
    /\ log_target \in (IF property = "energy" THEN BOOLEAN ELSE {FALSE})
    /\ \/ /\ mono_predictions \in InputTables(property, log_target)
          /\ event = NoEvent
       \/ /\ event \in Events
          /\ mono_predictions = event_table(event)
    /\ stereo_table = NotCalled
    /\ call_result = "not called"
    /\ prefix = TestPrefix(property)
    /\ calls = <<>>
    /\ tool = NoTool

PredictTable ==
    /\ stereo_table = NotCalled
    /\ stereo_table' = predict_table(mono_predictions)
    /\ UNCHANGED <<tool, property, weights, log_target, mono_predictions, event, call_result,
                   prefix, calls>>

\* a call on record: the combiner's configuration, how the call ended and
\* what it gave
CallRecord(kind, raised, result) ==
    [kind |-> kind, property |-> property, prefix |-> prefix, weights |-> weights,
     log_target |-> log_target, raised |-> raised, result |-> result]

Call ==
    /\ event.index \in ArrayEvents
    /\ call_result = "not called"
    /\ Len(calls) < MaxCalls
    /\ event' = call(event).event
    /\ call_result' = IF call(event).raised = "none" THEN "returned" ELSE call(event).raised
    /\ calls' = Append(calls, CallRecord("event", call(event).raised,
                                        call(event).event.stereo))
    /\ UNCHANGED <<tool, property, weights, log_target, prefix, mono_predictions, stereo_table>>

Next == PredictTable \/ Call

Spec == Init /\ [][Next]_vars

\* Several combiners on one event, as ApplyModels and the unit test
\* (test_mean_prediction_single_event) use them: a combiner is constructed
\* and called on the event, then the next one.

\* the events of array event (1, 2) with telescopes 1 and 2 in that order
CallEvents ==
    {ev \in Events :
        /\ ev.index = <<1, 2>>
        /\ \A i \in DOMAIN ev.dl2_tel : ev.dl2_tel[i].tel_id = i /\ i <= 2}

InitCalls ==
    /\ property \in Properties
    /\ weights \in WeightOptions
    /\ log_target \in (IF property = "energy" THEN BOOLEAN ELSE {FALSE})
    /\ prefix \in Prefixes
    /\ event \in CallEvents
    /\ mono_predictions = <<>>
    /\ stereo_table = NotCalled
    /\ call_result = "not called"
    /\ calls = <<>>
    /\ tool = NoTool

\* StereoMeanCombiner(prefix=..., property=..., weights=..., log_target=...)
\* after the call of the combiner before
Construct ==
    /\ call_result # "not called"
    /\ Len(calls) < MaxCalls
    /\ property' \in Properties
    /\ weights' \in WeightOptions
    /\ log_target' \in (IF property' = "energy" THEN BOOLEAN ELSE {FALSE})
    /\ prefix' \in Prefixes
    /\ call_result' = "not called"
    /\ UNCHANGED <<tool, mono_predictions, stereo_table, event, calls>>

NextCalls == Construct \/ Call

SpecCalls == InitCalls /\ [][NextCalls]_vars

\* A combiner whose property is none of the three the branches of __call__
\* and predict_table know: the CaselessStrEnum trait of StereoCombiner
\* admits none, a subclass that widens the trait does.  The table has the
\* columns of a telescope-wise prediction, the event its telescopes.
OtherProperty == "impact"

InitOther ==
    /\ property = OtherProperty
    /\ weights \in WeightOptions
    /\ log_target \in BOOLEAN
    /\ prefix \in Prefixes
    /\ \/ /\ mono_predictions \in Tables(property)
          /\ event = NoEvent
       \/ /\ event \in CallEvents
          /\ mono_predictions = <<>>
    /\ stereo_table = NotCalled
    /\ call_result = "not called"
    /\ calls = <<>>
    /\ tool = NoTool

SpecOther == InitOther /\ [][Next]_vars

\* One combiner used again and again, on a table and on an event: every call
\* is put on record in calls with what it gave, result being the returned
\* table or the stereo containers of the event after the call.
InitReuse ==
    /\ property \in Properties
    /\ weights \in WeightOptions
    /\ log_target \in (IF property = "energy" THEN BOOLEAN ELSE {FALSE})
    /\ prefix \in Prefixes
    /\ event \in CallEvents
    /\ mono_predictions \in
            {event_table(event)} \cup
            (IF property \in {"energy", "classification"} /\ ~log_target
             THEN {mono_table_by_telescope(property)} ELSE {})
    /\ stereo_table = NotCalled
    /\ call_result = "not called"
    /\ calls = <<>>
    /\ tool = NoTool

\* combiner.predict_table(mono_predictions), once more
PredictTableAgain ==
    /\ Len(calls) < MaxReuse
    /\ stereo_table' = predict_table(mono_predictions)
    /\ calls' = Append(calls, CallRecord("table", predict_table(mono_predictions).raised,
                                        predict_table(mono_predictions)))
    /\ UNCHANGED <<tool, property, weights, log_target, prefix, mono_predictions, event,
                   call_result>>

\* combiner(event), once more
CallAgain ==
    /\ Len(calls) < MaxReuse
    /\ event' = call(event).event
    /\ call_result' = IF call(event).raised = "none" THEN "returned" ELSE call(event).raised
    /\ calls' = Append(calls, CallRecord("event", call(event).raised,
                                        call(event).event.stereo))
    /\ UNCHANGED <<tool, property, weights, log_target, prefix, mono_predictions, stereo_table>>

NextReuse == PredictTableAgain \/ CallAgain

SpecReuse == InitReuse /\ [][NextReuse]_vars

\* Several combiners on one event and on the table of its telescope rows, as
\* ApplyModels._combine hands each combiner the stacked telescope table:
\* a combiner is constructed, used once on the event or on the table, and
\* the next one is constructed.

\* combiner.predict_table(table of the event's telescope rows)
CombineTable ==
    /\ call_result = "not called"
    /\ Len(calls) < MaxCalls
    /\ mono_predictions' = event_table(event)
    /\ stereo_table' = predict_table(event_table(event))
    /\ call_result' = IF predict_table(event_table(event)).raised = "none"
                      THEN "returned" ELSE predict_table(event_table(event)).raised
    /\ calls' = Append(calls, CallRecord("table", predict_table(event_table(event)).raised,
                                        predict_table(event_table(event))))
    /\ UNCHANGED <<tool, property, weights, log_target, prefix, event>>

NextPair == Construct \/ Call \/ CombineTable

SpecPair == InitCalls /\ [][NextPair]_vars

\* The telescope loop of ApplyModels.start for one reconstructor: the
\* subarray has the telescopes 1, 2, 3 of any type, the reconstructor
\* models for any of the types, and every telescope rows for any of the
\* array events.
EventLists == {<<>>} \cup {<<k>> : k \in ArrayEvents}
                \cup {<<j, k>> : <<j, k>> \in {jk \in ArrayEvents \X ArrayEvents :
                                                    KeyLess(jk[1], jk[2])}}

Tools ==
    {[subarray |-> [i \in Telescopes |-> [tel_id |-> i, tel |-> types[i]]],
      models |-> ms, norm_regressor |-> ns, sign_classifier |-> ms,
      events |-> ev, log |-> <<>>, written |-> <<>>, raised |-> "not run"] :
        types \in [Telescopes -> TelescopeTypes],
        ms \in SUBSET TelescopeTypes,
        ns \in {TelescopeTypes, {"LST"}},
        ev \in [Telescopes -> EventLists]}

InitApply ==
    /\ property \in Properties
    /\ weights = "none"
    /\ log_target = (property = "energy")
    /\ prefix = TestPrefix(property)
    /\ tool \in Tools
    /\ mono_predictions = <<>>
    /\ event = NoEvent
    /\ stereo_table = NotCalled
    /\ call_result = "not called"
    /\ calls = <<>>

\* mono_predictions = self._apply(reconstructor, parameter), or
\* self._apply_disp(...) for the geometry
Apply ==
    /\ tool.raised = "not run"
    /\ LET r == IF property = "geometry" THEN apply_disp(tool)
                ELSE apply(tool, property, prefix)
       IN  /\ tool' = [tool EXCEPT !.log = r.log, !.written = r.written,
                                   !.raised = r.raised]
           /\ mono_predictions' = r.table
    /\ UNCHANGED <<property, weights, log_target, prefix, event, stereo_table,
                   call_result, calls>>

SpecApply == InitApply /\ [][Apply]_vars

\* Combiners of one property that differ in their weights only, on inputs
\* that differ in the scale of the image intensities only: after a call
\* either the next combiner is constructed with other weights, or the same
\* array event comes with all intensities twice as large.

\* the events of array event (1, 2) with their telescopes in ascending
\* order, every telescope with image parameters
WeightEvents ==
    {ev \in Events :
        /\ ev.index = <<1, 2>>
        /\ \A i, j \in DOMAIN ev.dl2_tel :
                i < j => ev.dl2_tel[i].tel_id < ev.dl2_tel[j].tel_id
        /\ \A i \in DOMAIN ev.dl2_tel :
                ev.dl1_tel[ev.dl2_tel[i].tel_id].parameters.type = "Container"}

InitWeights ==
    /\ property \in Properties
    /\ weights \in WeightOptions
    /\ log_target \in (IF property = "energy" THEN BOOLEAN ELSE {FALSE})
    /\ prefix = TestPrefix(property)
    /\ event \in WeightEvents
    /\ mono_predictions \in
            {event_table(event)} \cup
            (IF property \in {"energy", "classification"} /\ ~log_target
             THEN {mono_table(property)} ELSE {})
    /\ stereo_table = NotCalled
    /\ call_result = "not called"
    /\ calls = <<>>
    /\ tool = NoTool

\* StereoMeanCombiner(prefix=..., property=..., weights=<other>, ...)
Reweigh ==
    /\ stereo_table # NotCalled \/ call_result # "not called"
    /\ Len(calls) < MaxReuse
    /\ weights' \in WeightOptions \ {weights}
    /\ stereo_table' = NotCalled
    /\ call_result' = "not called"
    /\ UNCHANGED <<tool, property, log_target, prefix, mono_predictions, event, calls>>

\* the same table and event with hillas_intensity times 2
Rescale ==
    /\ stereo_table # NotCalled \/ call_result # "not called"
    /\ Len(calls) < MaxReuse
    /\ mono_predictions' =
            [i \in DOMAIN mono_predictions |->
                [mono_predictions[i] EXCEPT !.hillas_intensity = Mul(Rat(2, 1), @)]]
    /\ event' =
            [event EXCEPT !.dl1_tel =
                [t \in Telescopes |->
                    IF event.dl1_tel[t].parameters.type = "Container"
                    THEN [event.dl1_tel[t] EXCEPT
                            !.parameters.hillas.intensity = Mul(Rat(2, 1), @)]
                    ELSE event.dl1_tel[t]]]
    /\ stereo_table' = NotCalled
    /\ call_result' = "not called"
    /\ UNCHANGED <<tool, property, weights, log_target, prefix, calls>>

NextWeights == Reweigh \/ Rescale \/ PredictTableAgain \/ CallAgain

SpecWeights == InitWeights /\ [][NextWeights]_vars

\* A geometry combiner on tables of telescope directions along the axes:
\* on the horizon towards azimuth 0, 90, 180 or 270 degrees, or at the
\* zenith.
Directions ==
    {[alt |-> 0, az |-> az] : az \in {0, 90, 180, 270}} \cup {[alt |-> 90, az |-> 0]}

DirectionRows ==
    {Row(key, tel, v, d, Hillas(tel)) :
        key \in ArrayEvents, tel \in Telescopes, v \in BOOLEAN, d \in Directions}

\* the tables of at most MaxRows telescope events with tel_id ascending
DirectionTables ==
    UNION {{t \in [1..n -> DirectionRows] :
                \A i, j \in 1..n : i < j => t[i].tel_id < t[j].tel_id}
           : n \in 0..MaxRows}

InitGeometry ==
    /\ property = "geometry"
    /\ weights \in WeightOptions
    /\ log_target = FALSE
    /\ prefix \in Prefixes
    /\ mono_predictions \in DirectionTables
    /\ event = NoEvent
    /\ stereo_table = NotCalled
    /\ call_result = "not called"
    /\ calls = <<>>
    /\ tool = NoTool

SpecGeometry == InitGeometry /\ [][PredictTable]_vars

----------------------------------------------------------------------------
(* Definitions the properties are stated with.  None of them uses an       *)
(* operator of the combiner.                                               *)

TableReturned == stereo_table.raised = "none"
CallReturned == call_result = "returned"

InputKeys == {<<mono_predictions[i].obs_id, mono_predictions[i].event_id>> :
                i \in DOMAIN mono_predictions}

RowKey(row) == <<row.obs_id, row.event_id>>

\* the input rows of an array event, and the valid ones among them
GroupRows(key) == {i \in DOMAIN mono_predictions : RowKey(mono_predictions[i]) = key}
ValidGroupRows(key) == {i \in GroupRows(key) : mono_predictions[i].is_valid}

LexLess(a, b) == a[1] < b[1] \/ (a[1] = b[1] /\ a[2] < b[2])

\* the configured weight of an input row
RowWeight(row) ==
    CASE weights = "none" -> One
      [] weights = "intensity" -> row.hillas_intensity
      [] weights = "konrad" ->
            Div(Mul(row.hillas_intensity, row.hillas_length), row.hillas_width)

\* the sum of f over the finite set S
RECURSIVE SetSum(_, _)
SetSum(S, f) ==
    IF S = {} THEN Zero
    ELSE LET i == CHOOSE j \in S : TRUE IN Add(f[i], SetSum(S \ {i}, f))

WeightSum(key) ==
    SetSum(ValidGroupRows(key), [i \in DOMAIN mono_predictions |-> RowWeight(mono_predictions[i])])

\* sum(w_i * v_i) / sum(w_i) over the valid rows of an array event, for the
\* values v given per input row
WeightedMean(key, v) ==
    Div(SetSum(ValidGroupRows(key),
               [i \in DOMAIN mono_predictions |-> Mul(RowWeight(mono_predictions[i]), v[i])]),
        WeightSum(key))

InputValues == [i \in DOMAIN mono_predictions |-> mono_predictions[i].value]

\* the tel_id of the valid rows of an array event, in input row order
RECURSIVE ValidTelIds(_, _)
ValidTelIds(table, key) ==
    IF table = <<>> THEN <<>>
    ELSE IF RowKey(Head(table)) = key /\ Head(table).is_valid
    THEN <<Head(table).tel_id>> \o ValidTelIds(Tail(table), key)
    ELSE ValidTelIds(Tail(table), key)

\* the combined value(s) of an output row or container are all finite / all NaN
ValueFinite(r) ==
    CASE property = "energy" -> r.energy.k # "nan"
      [] property = "classification" -> r.prediction.k # "nan"
      [] property = "geometry" -> r.alt.k # "nan" /\ r.az.k # "nan"

ValueNaN(r) ==
    CASE property = "energy" -> r.energy.k = "nan"
      [] property = "classification" -> r.prediction.k = "nan"
      [] property = "geometry" -> r.alt.k = "nan" /\ r.az.k = "nan"

----------------------------------------------------------------------------
(* Properties *)

C9_RowsAscending ==
    TableReturned =>
        \A g \in 1..(Len(stereo_table.rows) - 1) :
            LexLess(RowKey(stereo_table.rows[g]), RowKey(stereo_table.rows[g + 1]))

\* C9 witness: the input starts with a row of event (2, 1) and goes on with
\* a row of event (1, 2); the output has (1, 2) first
C9_Witness ==
    /\ TableReturned
    /\ Len(mono_predictions) >= 2
    /\ RowKey(mono_predictions[1]) = <<2, 1>>
    /\ RowKey(mono_predictions[2]) = <<1, 2>>
    /\ Len(stereo_table.rows) = 2
    /\ RowKey(stereo_table.rows[1]) = <<1, 2>>

\* C10: the telescopes entry of every output row lists the tel_id of exactly
\* the valid input rows of the row's array event, in input row order,
\* whatever the weights; every valid input row is in exactly one list.
C10_TelescopesAreValidRows ==
    TableReturned =>
        /\ \A g \in DOMAIN stereo_table.rows :
             stereo_table.rows[g].telescopes =
                ValidTelIds(mono_predictions, RowKey(stereo_table.rows[g]))
        /\ \A i \in DOMAIN mono_predictions :
             mono_predictions[i].is_valid =>
                Cardinality({g \in DOMAIN stereo_table.rows :
                    /\ RowKey(stereo_table.rows[g]) = RowKey(mono_predictions[i])
                    /\ \E j \in DOMAIN stereo_table.rows[g].telescopes :
                         stereo_table.rows[g].telescopes[j] = mono_predictions[i].tel_id}) = 1

\* C10 witness: weighting by intensity, a list that holds telescope 3 (of
\* weight 0) before telescope 1, as the input has them
C10_Witness ==
    /\ TableReturned
    /\ weights = "intensity"
    /\ \E g \in DOMAIN stereo_table.rows : stereo_table.rows[g].telescopes = <<3, 1>>

\* the combined value of an output row, for energy and classification
ScalarValue(r) == IF property = "energy" THEN r.energy ELSE r.prediction

\* C2: in table mode, for energy in linear domain and for classification,
\* the combined value of every group is sum(w_i * v_i) / sum(w_i) over
\* exactly the valid rows of the group, w_i the configured weight of row i
\* (stated for the groups where that sum of weights is positive); with
\* strategy "none" it is the arithmetic mean.  On the table of the unit
\* tests the values 1, 10, 4 give 5 with "none" and 7 with the intensities
\* 1, 2, 0.
C2_WeightedMeanOfValidRows ==
    (TableReturned /\ property \in {"energy", "classification"} /\ ~log_target) =>
        /\ \A g \in DOMAIN stereo_table.rows :
             LET key == RowKey(stereo_table.rows[g]) IN
             Greater(WeightSum(key), Zero) =>
                /\ ScalarValue(stereo_table.rows[g]) = WeightedMean(key, InputValues)
                /\ weights = "none" =>
                     ScalarValue(stereo_table.rows[g]) =
                        Div(SetSum(ValidGroupRows(key), InputValues),
                            Rat(Cardinality(ValidGroupRows(key)), 1))
        /\ (property = "energy" /\ mono_predictions = mono_table("energy")) =>
             /\ weights = "none" => stereo_table.rows[1].energy = Rat(5, 1)
             /\ weights = "intensity" => stereo_table.rows[1].energy = Rat(7, 1)

\* C2 witness: the table of the unit tests combined with intensity weights:
\* the first group has the valid values 1, 10, 4 with weights 1, 2, 0 and
\* the combined energy 7
C2_Witness ==
    /\ TableReturned
    /\ property = "energy"
    /\ weights = "intensity"
    /\ mono_predictions = mono_table("energy")
    /\ ValidGroupRows(<<1, 1>>) = {1, 2, 3}
    /\ stereo_table.rows[1].energy = Rat(7, 1)

\* the squared deviations of the input values from the number m
SquaredDeviations(m) ==
    [i \in DOMAIN mono_predictions |->
        Mul(Sub(mono_predictions[i].value, m), Sub(mono_predictions[i].value, m))]

\* sqrt(sum(w_i * (v_i - m_g)^2) / sum(w_i)) over the valid rows of a group,
\* m_g the weighted mean of that group
GroupStd(key) ==
    Sqrt(WeightedMean(key, SquaredDeviations(WeightedMean(key, InputValues))))

InputSorted ==
    \A i \in 1..(Len(mono_predictions) - 1) :
        ~LexLess(RowKey(mono_predictions[i + 1]), RowKey(mono_predictions[i]))

\* C3: in table mode with quantity energy (linear domain), for input rows in
\* any order, the energy_uncert of every group (of positive weight sum) is
\* the square root of sum(w_i * (v_i - m_g)^2) / sum(w_i) over the valid rows
\* of the group, m_g being the combined mean of that same group.
C3_UncertFromOwnGroupMean ==
    (TableReturned /\ property = "energy" /\ ~log_target) =>
        \A g \in DOMAIN stereo_table.rows :
            LET key == RowKey(stereo_table.rows[g]) IN
            Greater(WeightSum(key), Zero) =>
                stereo_table.rows[g].energy_uncert = GroupStd(key)

\* The same statement for the inputs whose rows are sorted by
\* (obs_id, event_id), where np.repeat(stereo_energy, multiplicity) does
\* line up with the rows.
C3_UncertFromOwnGroupMeanSortedInput ==
    (TableReturned /\ property = "energy" /\ ~log_target /\ InputSorted) =>
        \A g \in DOMAIN stereo_table.rows :
            LET key == RowKey(stereo_table.rows[g]) IN
            Greater(WeightSum(key), Zero) =>
                stereo_table.rows[g].energy_uncert = GroupStd(key)

\* the stereo container the call attached for the configured property
Slot == event.stereo[property][prefix]

ValidTelescopes == {i \in DOMAIN event.dl2_tel : event.dl2_tel[i].is_valid}

\* every telescope of the event has image parameters, the weights of the
\* event then being those of its table
AllHaveParameters ==
    \A i \in DOMAIN event.dl2_tel :
        event.dl1_tel[event.dl2_tel[i].tel_id].parameters.type = "Container"

\* C4: event-wise combination of one array event gives the combined value,
\* the is_valid flag and the telescope list that predict_table gives for the
\* table holding exactly that event's telescope rows, for every quantity
\* and weighting strategy.
C4_EventWiseEqualsTable ==
    (/\ call_result # "not called"
     /\ stereo_table # NotCalled
     /\ Len(event.dl2_tel) > 0
     /\ AllHaveParameters) =>
        /\ CallReturned
        /\ TableReturned
        /\ Len(stereo_table.rows) = 1
        /\ Slot.is_valid = stereo_table.rows[1].is_valid
        /\ Slot.telescopes = stereo_table.rows[1].telescopes
        /\ property = "energy" => Slot.energy = stereo_table.rows[1].energy
        /\ property = "classification" => Slot.prediction = stereo_table.rows[1].prediction
        /\ property = "geometry" =>
             Slot.alt = stereo_table.rows[1].alt /\ Slot.az = stereo_table.rows[1].az

\* C5: every stereo prediction of either entry point has a finite combined
\* value if is_valid is true and a NaN combined value if is_valid is false.
C5_ValidMeansFinite ==
    /\ TableReturned =>
         \A g \in DOMAIN stereo_table.rows :
            /\ stereo_table.rows[g].is_valid => ValueFinite(stereo_table.rows[g])
            /\ ~stereo_table.rows[g].is_valid => ValueNaN(stereo_table.rows[g])
    /\ CallReturned =>
         /\ Slot.is_valid => ValueFinite(Slot)
         /\ ~Slot.is_valid => ValueNaN(Slot)

\* C6: a group without a valid telescope prediction makes no entry point
\* raise; it gets is_valid false, a NaN value and an empty telescope list,
\* in event mode and in table mode.
C6_NoValidPredictionGivesPlaceholder ==
    /\ stereo_table.raised \in {"not called", "none"}
    /\ TableReturned =>
         \A g \in DOMAIN stereo_table.rows :
            ValidGroupRows(RowKey(stereo_table.rows[g])) = {} =>
                /\ ~stereo_table.rows[g].is_valid
                /\ ValueNaN(stereo_table.rows[g])
                /\ stereo_table.rows[g].telescopes = <<>>
    /\ (call_result # "not called" /\ ValidTelescopes = {}) =>
         /\ CallReturned
         /\ ~Slot.is_valid
         /\ ValueNaN(Slot)
         /\ Slot.telescopes = <<>>

C8_ValidIffSomeTelescopeValid ==
    /\ TableReturned =>
         \A g \in DOMAIN stereo_table.rows :
            stereo_table.rows[g].is_valid <=>
                ValidGroupRows(RowKey(stereo_table.rows[g])) # {}
    /\ CallReturned => (Slot.is_valid <=> ValidTelescopes # {})

\* C8 as amended: in event mode is_valid is true iff at least one telescope
\* prediction is valid; in table mode is_valid of a group is true iff the
\* weights of the group's valid rows have a positive sum, hence only if the
\* group has a valid row, and false if its valid rows all have weight zero.
C8_ValidIffPositiveWeight ==
    /\ TableReturned =>
         \A g \in DOMAIN stereo_table.rows :
            LET key == RowKey(stereo_table.rows[g]) IN
            /\ stereo_table.rows[g].is_valid <=> Greater(WeightSum(key), Zero)
            /\ stereo_table.rows[g].is_valid => ValidGroupRows(key) # {}
    /\ CallReturned => (Slot.is_valid <=> ValidTelescopes # {})

\* C8 witness: one event combined both ways: its only valid telescope has
\* weight zero; the table row is invalid, the event's container valid
C8_Witness ==
    /\ TableReturned
    /\ CallReturned
    /\ Len(stereo_table.rows) = 1
    /\ ValidGroupRows(RowKey(stereo_table.rows[1])) # {}
    /\ WeightSum(RowKey(stereo_table.rows[1])) = Zero
    /\ ~stereo_table.rows[1].is_valid
    /\ ValidTelescopes # {}
    /\ Slot.is_valid

\* the valid rows of one array event, in input row order: the table that
\* is left when every other row is taken away
RECURSIVE OwnValidRows(_, _)
OwnValidRows(table, key) ==
    IF table = <<>> THEN <<>>
    ELSE IF RowKey(Head(table)) = key /\ Head(table).is_valid
    THEN <<Head(table)>> \o OwnValidRows(Tail(table), key)
    ELSE OwnValidRows(Tail(table), key)

\* the combined value(s) of two output rows are the same
SameValue(r, s) ==
    CASE property = "energy" -> r.energy = s.energy
      [] property = "classification" -> r.prediction = s.prediction
      [] property = "geometry" -> r.alt = s.alt /\ r.az = s.az

Parameters(i) == event.dl1_tel[event.dl2_tel[i].tel_id].parameters

\* the weight of item i of the event: the configured weight of its image
\* parameters, and 1 if it has none
EventWeight(i) ==
    IF Parameters(i).type # "Container" THEN One
    ELSE CASE weights = "none" -> One
           [] weights = "intensity" -> Parameters(i).hillas.intensity
           [] weights = "konrad" ->
                Div(Mul(Parameters(i).hillas.intensity, Parameters(i).hillas.length),
                    Parameters(i).hillas.width)

EventWeightSum ==
    SetSum(ValidTelescopes, [i \in DOMAIN event.dl2_tel |-> EventWeight(i)])

\* sum(w_i * v_i) / sum(w_i) over the valid telescopes of the event, for
\* the values v given per item
EventMean(v) ==
    Div(SetSum(ValidTelescopes, [i \in DOMAIN event.dl2_tel |-> Mul(EventWeight(i), v[i])]),
        EventWeightSum)

EventValues == [i \in DOMAIN event.dl2_tel |-> event.dl2_tel[i].value[property]]

SomeValidWithoutParameters ==
    \E i \in ValidTelescopes : Parameters(i).type # "Container"

\* C12: an event-wise call on an event with a valid telescope that has no
\* image parameters returns, for every property and weighting strategy, and
\* that telescope has weight 1: for energy (linear domain) and
\* classification the attached value is sum(w_i * v_i) / sum(w_i) with
\* w_i = 1 for the telescopes without parameters.
C12_MissingParametersWeighOne ==
    (call_result # "not called" /\ SomeValidWithoutParameters) =>
        /\ CallReturned
        /\ (property \in {"energy", "classification"} /\ ~log_target) =>
                ScalarValue(Slot) = EventMean(EventValues)

\* The same statement for classification alone, where the loop takes
\* weight 1 for a telescope without parameters.
C12_ClassificationFallsBackToWeightOne ==
    (call_result # "not called" /\ SomeValidWithoutParameters
        /\ property = "classification") =>
        /\ CallReturned
        /\ Slot.prediction = EventMean(EventValues)

C13_OtherPropertyTableNotImplemented ==
    property \notin Properties =>
        /\ stereo_table # NotCalled =>
                stereo_table.raised = "NotImplementedError" /\ stereo_table.rows = <<>>
        /\ call_result # "not called" =>
                call_result = "AttributeError" /\ event.stereo = NoStereo

\* the mean direction of the valid telescopes of the event: the weighted
\* mean of their unit vectors, as (alt, az)
EventMeanDirection ==
    LET xyz == [i \in DOMAIN event.dl2_tel |->
                    cartesian(event.dl2_tel[i].value["geometry"].alt,
                              event.dl2_tel[i].value["geometry"].az)]
    IN  represent_as_unit_spherical(
            EventMean([i \in DOMAIN event.dl2_tel |-> xyz[i].x]),
            EventMean([i \in DOMAIN event.dl2_tel |-> xyz[i].y]),
            EventMean([i \in DOMAIN event.dl2_tel |-> xyz[i].z]))

\* C14: the call of a geometry combiner on an event with a valid telescope
\* direction returns, and the geometry container it attached under the
\* prefix has is_valid true and the weighted mean direction of the valid
\* telescopes as (alt, az).
C14_GeometryCallAttachesMeanDirection ==
    (call_result # "not called" /\ property = "geometry" /\ ValidTelescopes # {}) =>
        /\ CallReturned
        /\ Slot.container = "ReconstructedGeometryContainer"
        /\ Slot.is_valid
        /\ Greater(EventWeightSum, Zero) =>
                /\ Slot.alt = EventMeanDirection.alt
                /\ Slot.az = EventMeanDirection.az

\* What _combine_disp would attach if __call__ got to it: the statement of
\* C14 for the direct call of _combine_disp on the event.
C14_CombineDispAttachesMeanDirection ==
    (property = "geometry" /\ ValidTelescopes # {} /\ Greater(EventWeightSum, Zero)) =>
        LET geometry == combine_disp(event).event.stereo["geometry"][prefix] IN
        /\ combine_disp(event).raised = "none"
        /\ geometry.is_valid
        /\ geometry.alt = EventMeanDirection.alt
        /\ geometry.az = EventMeanDirection.az

\* C15: for energy, the energy_uncert the event-wise call attaches is the
\* energy_uncert of the row predict_table returns for the table of the
\* event's telescope rows (stated for the events whose telescopes all have
\* image parameters and whose valid telescopes have a positive weight sum;
\* one valid telescope and unequal weights included).
C15_EventUncertEqualsTableUncert ==
    (/\ property = "energy"
     /\ CallReturned
     /\ TableReturned
     /\ AllHaveParameters
     /\ ValidTelescopes # {}
     /\ Greater(EventWeightSum, Zero)) =>
        /\ Len(stereo_table.rows) = 1
        /\ Slot.energy_uncert = stereo_table.rows[1].energy_uncert

\* ln v in the unit the model's Exp inverts, for the energies of the
\* inputs (powers of two): the exponent
LnOf(x) == Rat(Log2Int(x.n) - Log2Int(x.d), 1)

\* C16: with log_target the combined energy is
\* exp(sum(w_i * ln v_i) / sum(w_i)) over the valid rows, in table mode for
\* every group and in event mode (where the weight sum is positive); it is
\* not the linear mean: the energies 1, 4, 2 TeV of array event (1, 2) with
\* uniform weights give 2 TeV, not 7/3 TeV.
C16_LogTargetGeometricMean ==
    (property = "energy" /\ log_target) =>
        /\ TableReturned =>
             \A g \in DOMAIN stereo_table.rows :
                LET key == RowKey(stereo_table.rows[g]) IN
                Greater(WeightSum(key), Zero) =>
                    /\ stereo_table.rows[g].energy =
                         Exp(WeightedMean(key,
                                [i \in DOMAIN mono_predictions |-> LnOf(mono_predictions[i].value)]))
                    /\ (weights = "none" /\ key = <<1, 2>>
                            /\ Cardinality(ValidGroupRows(key)) = 3) =>
                         /\ stereo_table.rows[g].energy = Rat(2, 1)
                         /\ WeightedMean(key, InputValues) = Rat(7, 3)
        /\ (CallReturned /\ ValidTelescopes # {} /\ Greater(EventWeightSum, Zero)) =>
             Slot.energy =
                Exp(EventMean([i \in DOMAIN event.dl2_tel |-> LnOf(EventValues[i])]))

\* C16 witness: the three telescopes of array event (1, 2), all valid, with
\* uniform weights and log_target, combined both ways: 2 TeV
C16_Witness ==
    /\ property = "energy" /\ log_target /\ weights = "none"
    /\ TableReturned /\ CallReturned
    /\ event.index = <<1, 2>>
    /\ Cardinality(ValidTelescopes) = 3
    /\ stereo_table.rows[1].energy = Rat(2, 1)
    /\ Slot.energy = Rat(2, 1)

\* the combined value(s) of an output row or container are the mono
\* prediction v
ValueIs(r, v) ==
    CASE property = "energy" -> r.energy = v
      [] property = "classification" -> r.prediction = v
      [] property = "geometry" -> r.alt = Rat(v.alt, 1) /\ r.az = Rat(v.az, 1)

\* C17: a group with exactly one valid row, of value v and positive weight,
\* has the combined value v: for energy in linear domain and with
\* log_target, for classification and for geometry (the direction v), with
\* every weighting strategy and whatever the other rows of the table are;
\* likewise an event with one valid telescope whose call returns.
C17_SingleValidRowKeepsValue ==
    /\ TableReturned =>
         \A g \in DOMAIN stereo_table.rows :
            LET key == RowKey(stereo_table.rows[g]) IN
            \A i \in ValidGroupRows(key) :
                (ValidGroupRows(key) = {i} /\ Greater(RowWeight(mono_predictions[i]), Zero)) =>
                    ValueIs(stereo_table.rows[g], mono_predictions[i].value)
    /\ CallReturned =>
         \A i \in ValidTelescopes :
            (ValidTelescopes = {i} /\ Greater(EventWeight(i), Zero)) =>
                ValueIs(Slot, EventValues[i])

\* C17 witness: with log_target and intensity weights, a group whose one
\* valid row has weight 1 and value 1 TeV, next to another group with a
\* row of weight 2
C17_Witness ==
    /\ TableReturned
    /\ property = "energy" /\ log_target /\ weights = "intensity"
    /\ Len(stereo_table.rows) = 2
    /\ \E i, j \in DOMAIN mono_predictions :
        /\ ValidGroupRows(<<1, 2>>) = {i}
        /\ mono_predictions[i].tel_id = 1
        /\ RowKey(mono_predictions[j]) = <<2, 1>>
        /\ mono_predictions[j].is_valid /\ mono_predictions[j].tel_id = 2
    /\ stereo_table.rows[1].energy = Rat(1, 1)

\* the weight the configured strategy gives image parameters of the given
\* intensity, length and width
StrategyWeight(intensity, length, width) ==
    CASE weights = "none" -> One
      [] weights = "intensity" -> intensity
      [] weights = "konrad" -> Div(Mul(intensity, length), width)

NonNegative(x) == IsRat(x) /\ x.n >= 0
Positive(x) == IsRat(x) /\ x.n > 0

\* C18: _calculate_weights gives 1 for strategy none, the intensity for
\* intensity and intensity * length / width for konrad: one number for the
\* image parameters of a telescope, and for a table a sequence with one
\* entry per row; each weight is a non-negative number when intensity and
\* length are non-negative and width is positive.
C18_WeightsOfStrategy ==
    /\ LET w == calculate_weights(Table(mono_predictions)) IN
       /\ DOMAIN w = DOMAIN mono_predictions
       /\ \A i \in DOMAIN mono_predictions :
            LET row == mono_predictions[i] IN
            /\ w[i] = StrategyWeight(row.hillas_intensity, row.hillas_length,
                                     row.hillas_width)
            /\ weights = "none" => w[i] = Rat(1, 1)
            /\ (NonNegative(row.hillas_intensity) /\ NonNegative(row.hillas_length)
                    /\ Positive(row.hillas_width)) => NonNegative(w[i])
    /\ \A i \in DOMAIN event.dl2_tel :
         Parameters(i).type = "Container" =>
            LET h == Parameters(i).hillas
                w == calculate_weights(Parameters(i))
            IN  /\ w = StrategyWeight(h.intensity, h.length, h.width)
                /\ weights = "none" => w = Rat(1, 1)
                /\ (NonNegative(h.intensity) /\ NonNegative(h.length) /\ Positive(h.width))
                        => NonNegative(w)

\* C18 witness: strategy konrad on the table of telescope 1 (intensity 1,
\* length 4, width 2: weight 2) and telescope 3 (intensity 0: weight 0),
\* combined by predict_table
C18_Witness ==
    /\ weights = "konrad"
    /\ TableReturned
    /\ Len(mono_predictions) = 2
    /\ mono_predictions[1].tel_id = 1 /\ mono_predictions[2].tel_id = 3
    /\ calculate_weights(Table(mono_predictions)) = <<Rat(2, 1), Rat(0, 1)>>

\* the first valid telescope of the event without image parameters has an
\* entry in dl1.tel, and the valid telescopes before it have parameters
FirstMissingHasEntry ==
    \E i \in ValidTelescopes :
        /\ Parameters(i).type # "Container"
        /\ event.dl1_tel[event.dl2_tel[i].tel_id].present
        /\ \A j \in ValidTelescopes : j < i => Parameters(j).type = "Container"

\* C19: for every weighting strategy, none included, _calculate_weights of
\* an argument that is neither a Container nor a Table (None, the
\* parameters of a dl1 entry without image parameters) raises TypeError;
\* the energy call that runs into it ends with TypeError, and that step
\* changes neither the event nor the combiner.
C19_TypeErrorChangesNothing ==
    /\ [](calculate_weights(None) = Raise("TypeError"))
    /\ []((call_result # "not called" /\ property = "energy" /\ FirstMissingHasEntry)
            => call_result = "TypeError")
    /\ [][(call_result = "not called" /\ call_result' = "TypeError") =>
            /\ event' = event
            /\ UNCHANGED <<property, weights, log_target, prefix,
                           mono_predictions, stereo_table>>]_vars

\* C19 witness: an energy combiner with strategy none was called on an
\* event whose valid telescope has a dl1 entry without parameters, and the
\* call ended with TypeError
C19_Witness ==
    /\ weights = "none"
    /\ property = "energy"
    /\ call_result = "TypeError"
    /\ FirstMissingHasEntry
    /\ event.stereo = NoStereo

\* the event with the stereo containers of a fresh event
FreshEvent == [event EXCEPT !.stereo = NoStereo]

\* a step that is an event-wise call
CallStep == calls' # calls

OtherSlotsUnchanged ==
    \A q \in Properties, p \in Prefixes :
        <<q, p>> # <<property, prefix>> => event'.stereo[q][p] = event.stereo[q][p]

\* C20: an event-wise call changes nothing of the event but the stereo
\* container of the configured property under the configured prefix: the
\* telescope predictions, the dl1 entries, the index and the containers of
\* the other properties and prefixes stay; and whatever calls went before,
\* after a call that returned the container is the one a single call of
\* this combiner attaches to the event without stereo containers.
C20_CallChangesOnlyItsSlot ==
    /\ [][CallStep =>
            /\ event'.index = event.index
            /\ event'.dl2_tel = event.dl2_tel
            /\ event'.dl1_tel = event.dl1_tel
            /\ OtherSlotsUnchanged]_vars
    /\ [](CallReturned =>
            /\ call(FreshEvent).raised = "none"
            /\ Slot = call(FreshEvent).event.stereo[property][prefix])

\* What does hold: the same statement but for event.dl1.tel, where a call
\* may add entries without parameters and changes no entry that is there.
C20_CallChangesItsSlotAndAddsDl1Entries ==
    /\ [][CallStep =>
            /\ event'.index = event.index
            /\ event'.dl2_tel = event.dl2_tel
            /\ \A t \in Telescopes :
                 \/ event'.dl1_tel[t] = event.dl1_tel[t]
                 \/ /\ ~event.dl1_tel[t].present
                    /\ event'.dl1_tel[t] = [present |-> TRUE, parameters |-> None]
            /\ OtherSlotsUnchanged]_vars
    /\ [](CallReturned =>
            /\ call(FreshEvent).raised = "none"
            /\ Slot = call(FreshEvent).event.stereo[property][prefix])

NamedColumns(p, q) ==
    <<"obs_id", "event_id">> \o
    [i \in DOMAIN
        (CASE q = "energy" ->
                <<"energy", "energy_uncert", "is_valid", "goodness_of_fit", "telescopes">>
           [] q = "classification" ->
                <<"prediction", "is_valid", "goodness_of_fit", "telescopes">>
           [] q = "geometry" ->
                <<"alt", "alt_uncert", "az", "az_uncert", "is_valid", "goodness_of_fit",
                  "telescopes">>) |->
        p \o "_" \o
        (CASE q = "energy" ->
                <<"energy", "energy_uncert", "is_valid", "goodness_of_fit", "telescopes">>
           [] q = "classification" ->
                <<"prediction", "is_valid", "goodness_of_fit", "telescopes">>
           [] q = "geometry" ->
                <<"alt", "alt_uncert", "az", "az_uncert", "is_valid", "goodness_of_fit",
                  "telescopes">>)[i]]

OutputColumns(table) ==
    {table.colnames[i] : i \in DOMAIN table.colnames} \ {"obs_id", "event_id"}

\* two calls on record of combiners that differ in prefix or in quantity
DifferentCombiners(i, j) ==
    /\ i < j
    /\ <<calls[i].prefix, calls[i].property>> # <<calls[j].prefix, calls[j].property>>
    /\ calls[i].raised = "none"
    /\ calls[j].raised = "none"

\* C23: two combiners that differ in prefix or in quantity never write the
\* same output.  Called on one event, the later one leaves the stereo
\* container of the earlier one as it was; given the table of that event,
\* the names of their output columns other than obs_id and event_id are
\* disjoint, also for one prefix and two quantities.
C23_DifferentCombinersWriteDifferentOutput ==
    \A i, j \in DOMAIN calls :
        DifferentCombiners(i, j) =>
            /\ (calls[i].kind = "event" /\ calls[j].kind = "event") =>
                    calls[j].result[calls[i].property][calls[i].prefix]
                        = calls[i].result[calls[i].property][calls[i].prefix]
            /\ (calls[i].kind = "table" /\ calls[j].kind = "table") =>
                    OutputColumns(calls[i].result) \cap OutputColumns(calls[j].result) = {}

\* What does hold: the stereo slots are distinct, the columns of two
\* prefixes are disjoint, and two quantities under one prefix share exactly
\* the columns is_valid, goodness_of_fit and telescopes of that prefix.
C23_OnePrefixSharesThreeColumns ==
    \A i, j \in DOMAIN calls :
        DifferentCombiners(i, j) =>
            /\ (calls[i].kind = "event" /\ calls[j].kind = "event") =>
                    calls[j].result[calls[i].property][calls[i].prefix]
                        = calls[i].result[calls[i].property][calls[i].prefix]
            /\ (calls[i].kind = "table" /\ calls[j].kind = "table") =>
                    OutputColumns(calls[i].result) \cap OutputColumns(calls[j].result)
                        = IF calls[i].prefix # calls[j].prefix THEN {}
                          ELSE {calls[i].prefix \o "_is_valid",
                                calls[i].prefix \o "_goodness_of_fit",
                                calls[i].prefix \o "_telescopes"}

\* C24: in every row of every table predict_table returns, whatever the
\* property, goodness_of_fit is NaN; for geometry alt_uncert and az_uncert
\* are NaN in every row too, valid or not.
C24_GoodnessOfFitAndDirectionUncertNaN ==
    TableReturned =>
        \A g \in DOMAIN stereo_table.rows :
            /\ IsNaN(stereo_table.rows[g].goodness_of_fit)
            /\ property = "geometry" =>
                    /\ IsNaN(stereo_table.rows[g].alt_uncert)
                    /\ IsNaN(stereo_table.rows[g].az_uncert)

\* a geometry table of a valid row and a row that is not valid, both
\* without goodness_of_fit and without uncertainties of the direction
C24_Witness ==
    /\ TableReturned
    /\ property = "geometry"
    /\ \E g, h \in DOMAIN stereo_table.rows :
            /\ stereo_table.rows[g].is_valid
            /\ ~stereo_table.rows[h].is_valid
            /\ IsNaN(stereo_table.rows[g].goodness_of_fit)
            /\ IsNaN(stereo_table.rows[h].alt_uncert)
            /\ IsNaN(stereo_table.rows[h].az_uncert)

\* the unit vector of a direction along the axes
UnitVector(d) ==
    IF d.alt = 90 THEN <<0, 0, 1>>
    ELSE CASE d.az = 0 -> <<1, 0, 0>>
           [] d.az = 90 -> <<0, 1, 0>>
           [] d.az = 180 -> <<-1, 0, 0>>
           [] d.az = 270 -> <<0, -1, 0>>

\* component c of the weighted mean of the unit vectors of the valid rows
\* of an array event
MeanComponent(key, c) ==
    WeightedMean(key, [i \in DOMAIN mono_predictions |->
                          Rat(UnitVector(mono_predictions[i].value)[c], 1)])

\* the azimuth az is that of the horizontal vector (x, y), not the null
\* vector: the vector of az is a positive multiple of (x, y)
IsAzimuthOf(az, x, y) ==
    LET a == IF IsRat(az)
             THEN UnitVector([alt |-> 0, az |-> az.n])
             ELSE <<az.x, az.y, 0>>
        ax == Rat(a[1], 1)
        ay == Rat(a[2], 1)
    IN  /\ IsRat(az) => az.d = 1 /\ az.n \in {0, 90, 180, 270}
        /\ ~IsRat(az) => az.k = "arctan2"
        /\ Sub(Mul(ax, y), Mul(ay, x)) = Zero
        /\ Greater(Add(Mul(ax, x), Mul(ay, y)), Zero)

\* the altitude alt is that of the vector (x, y, z), not the null vector:
\* the sign of alt is that of z, and tan(alt)^2 = z^2 / (x^2 + y^2)
IsAltitudeOf(alt, x, y, z) ==
    LET h2 == Add(Mul(x, x), Mul(y, y))
        t2 == Div(Mul(z, z), h2)
    IN  IF h2 = Zero THEN alt = Rat(90 * Sign(z.n), 1)
        ELSE IF z = Zero THEN alt = Zero
        ELSE CASE alt.k = "arctan2" ->
                    /\ Sign(alt.y) = Sign(z.n)
                    /\ alt.x > 0
                    /\ Rat(alt.y * alt.y, alt.x * alt.x) = t2
               [] alt.k = "arctan2h" -> alt.s = Sign(z.n) /\ alt.t2 = t2
               [] OTHER -> FALSE

\* the valid rows of the array event are one on the horizon at azimuth 270
\* and one on the horizon at azimuth 0, both with a positive weight
AcrossAzimuthZero(key) ==
    /\ Cardinality(ValidGroupRows(key)) = 2
    /\ \E i, j \in ValidGroupRows(key) :
            /\ mono_predictions[i].value = [alt |-> 0, az |-> 270]
            /\ mono_predictions[j].value = [alt |-> 0, az |-> 0]
            /\ Greater(RowWeight(mono_predictions[i]), Zero)
            /\ Greater(RowWeight(mono_predictions[j]), Zero)

\* C25: for geometry the combined direction of a group is the direction of
\* the vector whose x, y and z are the weighted means of the x, y and z of
\* the unit vectors of the group's valid rows (stated where the weights sum
\* to more than 0 and the mean vector has a direction); telescopes at
\* azimuth 270 and 0 give an azimuth between 270 and 360, not the 135 their
\* angles average to.
C25_DirectionOfMeanVector ==
    (TableReturned /\ property = "geometry") =>
        \A g \in DOMAIN stereo_table.rows :
            LET key == RowKey(stereo_table.rows[g])
                x == MeanComponent(key, 1)
                y == MeanComponent(key, 2)
                z == MeanComponent(key, 3)
                r == stereo_table.rows[g]
            IN  Greater(WeightSum(key), Zero) =>
                    /\ <<x, y, z>> # <<Zero, Zero, Zero>> => IsAltitudeOf(r.alt, x, y, z)
                    /\ <<x, y>> # <<Zero, Zero>> => IsAzimuthOf(r.az, x, y)
                    /\ AcrossAzimuthZero(key) =>
                            r.az.k = "arctan2" /\ r.az.x > 0 /\ r.az.y < 0

\* telescopes 1 and 2 on the horizon at azimuth 270 and 0, weighted by
\* intensity 1 and 2: the mean vector is (2/3, -1/3, 0) and the combined
\* direction has altitude 0 and the azimuth of (2, -1), about 333.4 degrees
C25_Witness ==
    /\ TableReturned
    /\ property = "geometry"
    /\ weights = "intensity"
    /\ \E g \in DOMAIN stereo_table.rows :
            /\ AcrossAzimuthZero(RowKey(stereo_table.rows[g]))
            /\ MeanComponent(RowKey(stereo_table.rows[g]), 1) = Rat(2, 3)
            /\ MeanComponent(RowKey(stereo_table.rows[g]), 2) = Rat(-1, 3)
            /\ stereo_table.rows[g].alt = Zero
            /\ stereo_table.rows[g].az = [k |-> "arctan2", y |-> -1, x |-> 2]
            /\ stereo_table.rows[g].is_valid

\* the valid rows of the input table, the rows _weighted_mean_ufunc gets
\* its weights for, and those of them that belong to an array event
ValidInputRows == MaskSelect(mono_predictions, [i \in DOMAIN mono_predictions |->
                                                  mono_predictions[i].is_valid])
ValidRowsOf(key) == {i \in DOMAIN ValidInputRows : RowKey(ValidInputRows[i]) = key}

\* the weights as _weighted_mean_ufunc sums them
SummedWeights == normalized_weights(calculate_weights(Table(ValidInputRows)))

\* C26: in table mode the weights of a group are divided by the largest
\* weight of that group before they are summed: in every group with a
\* positive weight the largest weight summed is 1, whatever the weights of
\* the other groups are.
C26_GroupWeightsDividedByGroupMaximum ==
    TableReturned =>
        \A key \in InputKeys :
            (\E i \in ValidRowsOf(key) : Greater(RowWeight(ValidInputRows[i]), Zero)) =>
                /\ \E i \in ValidRowsOf(key) : SummedWeights[i] = One
                /\ \A i \in ValidRowsOf(key) : ~Greater(SummedWeights[i], One)

\* What does hold, where every valid row has its image parameters: the
\* weights are divided by the largest weight of the whole table, so the
\* largest weight summed is 1 in the table, and the weights summed are in
\* the proportion of the configured weights.
C26_WeightsDividedByTableMaximum ==
    (TableReturned /\ \A i \in DOMAIN ValidInputRows : IsRat(RowWeight(ValidInputRows[i]))) =>
        /\ (\E i \in DOMAIN ValidInputRows : Greater(RowWeight(ValidInputRows[i]), Zero)) =>
                /\ \E i \in DOMAIN ValidInputRows : SummedWeights[i] = One
                /\ \A i \in DOMAIN ValidInputRows : ~Greater(SummedWeights[i], One)
        /\ \A i, j \in DOMAIN ValidInputRows :
                Mul(SummedWeights[i], RowWeight(ValidInputRows[j]))
                    = Mul(SummedWeights[j], RowWeight(ValidInputRows[i]))

\* the telescopes of the subarray the loop of the apply step passes over:
\* those whose type has no model (for the geometry: of either disp model)
\* and those without events
HasModel(i) ==
    IF property = "geometry"
    THEN tool.subarray[i].tel \in tool.norm_regressor \cap tool.sign_classifier
    ELSE tool.subarray[i].tel \in tool.models
Skipped == {i \in DOMAIN tool.subarray : ~HasModel(i) \/ tool.events[tool.subarray[i].tel_id] = <<>>}

Applied == tool.raised # "not run"

\* the tel_id of the rows of a table, and of the warnings logged, in order
TelIdsOf(s) == [i \in DOMAIN s |-> s[i].tel_id]

\* the array events of the rows of telescope tel_id in a table, in order
RECURSIVE KeysOf(_, _)
KeysOf(table, tel_id) ==
    IF table = <<>> THEN <<>>
    ELSE IF Head(table).tel_id = tel_id
    THEN <<RowKey(Head(table))>> \o KeysOf(Tail(table), tel_id)
    ELSE KeysOf(Tail(table), tel_id)

\* the members of a set of numbers as the ascending sequence
RECURSIVE Ascending(_)
Ascending(S) ==
    IF S = {} THEN <<>>
    ELSE LET lo == CHOOSE i \in S : \A j \in S : i <= j
         IN  <<lo>> \o Ascending(S \ {lo})

\* C27: in the bulk apply step a telescope whose type has no model, or
\* that has no events, is passed over with one warning logged for it, and
\* every other telescope is processed and has all its rows in the stacked
\* table (the one handed to the combiner); the step raises ValueError when
\* no telescope gave predictions and only then.
C27_ApplySkipsWithWarning ==
    Applied =>
        /\ TelIdsOf(tool.log) = Ascending({tool.subarray[i].tel_id : i \in Skipped})
        /\ \A i \in DOMAIN tool.log : tool.log[i].level = "warning"
        /\ \A i \in DOMAIN tool.subarray :
                KeysOf(mono_predictions, tool.subarray[i].tel_id)
                    = IF i \in Skipped THEN <<>> ELSE tool.events[tool.subarray[i].tel_id]
        /\ tool.raised = IF Skipped = DOMAIN tool.subarray THEN "ValueError" ELSE "none"

\* telescope 1 has no model and telescope 2 no events: both are passed
\* over with a warning, and the table has the two rows of telescope 3
C27_Witness ==
    /\ Applied
    /\ property = "energy"
    /\ ~HasModel(1)
    /\ HasModel(2) /\ tool.events[2] = <<>>
    /\ tool.events[3] = <<<<1, 2>>, <<2, 1>>>>
    /\ tool.log = <<Warning("No model", 1), Warning("No events", 2)>>
    /\ TelIdsOf(mono_predictions) = <<3, 3>>
    /\ tool.raised = "none"

\* no telescope of the geometry step has both disp models: ValueError
C27_WitnessNoPredictions ==
    /\ Applied
    /\ property = "geometry"
    /\ Skipped = DOMAIN tool.subarray
    /\ tool.raised = "ValueError"
    /\ mono_predictions = <<>>

\* x <= y for two combined or input values: rationals in linear domain;
\* with log_target powers of two and exponentials, compared by exponent
Exponent(x) == IF IsRat(x) THEN LnOf(x) ELSE x.of
AtMost(x, y) ==
    IF log_target
    THEN (x.k \in {"rat", "exp"}) /\ ~Greater(Exponent(x), Exponent(y))
    ELSE IsRat(x) /\ ~Greater(x, y)

\* C28: for weights that are not negative and have a positive sum, the
\* combined energy or classification score of a group is at least the
\* smallest and at most the largest value of the group's valid rows, in
\* linear domain and with log_target; a combined score of scores in [0, 1]
\* is in [0, 1].
C28_CombinedValueWithinRangeOfValidRows ==
    (TableReturned /\ property \in {"energy", "classification"}) =>
        \A g \in DOMAIN stereo_table.rows :
            LET key == RowKey(stereo_table.rows[g])
                v == ScalarValue(stereo_table.rows[g])
            IN  (/\ Greater(WeightSum(key), Zero)
                 /\ \A i \in ValidGroupRows(key) : NonNegative(RowWeight(mono_predictions[i]))) =>
                    /\ \E i \in ValidGroupRows(key) : AtMost(InputValues[i], v)
                    /\ \E i \in ValidGroupRows(key) : AtMost(v, InputValues[i])
                    /\ (/\ property = "classification"
                        /\ \A i \in ValidGroupRows(key) :
                                AtMost(Zero, InputValues[i]) /\ AtMost(InputValues[i], One)) =>
                            AtMost(Zero, v) /\ AtMost(v, One)

\* telescopes 1 and 2 of array event (1, 2) with the energies 1 and 4 TeV,
\* weighted by intensity 1 and 2 with log_target: the combined energy is
\* 2^(4/3) TeV, between 1 and 4 and equal to neither
C28_Witness ==
    /\ TableReturned
    /\ property = "energy" /\ log_target /\ weights = "intensity"
    /\ \E g \in DOMAIN stereo_table.rows :
            /\ RowKey(stereo_table.rows[g]) = <<1, 2>>
            /\ {mono_predictions[i].tel_id : i \in ValidGroupRows(<<1, 2>>)} = {1, 2}
            /\ stereo_table.rows[g].energy = [k |-> "exp", of |-> Rat(4, 3)]
            /\ AtMost(Rat(1, 1), stereo_table.rows[g].energy)
            /\ AtMost(stereo_table.rows[g].energy, Rat(4, 1))

\* the standard deviation of the logarithms of the valid energies of a
\* group around their weighted mean, with the configured weights
LogGroupStd(key) ==
    LET ln == [i \in DOMAIN mono_predictions |-> LnOf(mono_predictions[i].value)]
        m == WeightedMean(key, ln)
    IN  Sqrt(WeightedMean(key, [i \in DOMAIN mono_predictions |->
                                    Mul(Sub(ln[i], m), Sub(ln[i], m))]))

\* an energy_uncert of at least 1 TeV: exp of a number that is not negative
AtLeastOne(x) ==
    \/ IsRat(x) /\ ~Greater(One, x)
    \/ x.k = "exp" /\ (x.of.k = "sqrt" \/ NonNegative(x.of))

\* the valid rows of the group are one row, or rows of one energy
OneValidEnergy(key) ==
    \A i, j \in ValidGroupRows(key) : mono_predictions[i].value = mono_predictions[j].value

\* C29: in table mode with property energy and log_target, the
\* energy_uncert of a valid group is exp of the standard deviation of the
\* logarithms of its valid energies, so at least 1 TeV, and exactly 1 TeV
\* for a group with one valid telescope or with valid telescopes of one
\* energy; without log_target such a group has energy_uncert 0 TeV.
C29_LogUncertIsExpOfLogStd ==
    (TableReturned /\ property = "energy") =>
        \A g \in DOMAIN stereo_table.rows :
            LET key == RowKey(stereo_table.rows[g])
                uncert == stereo_table.rows[g].energy_uncert
            IN  stereo_table.rows[g].is_valid =>
                    /\ log_target =>
                            /\ uncert = Exp(LogGroupStd(key))
                            /\ AtLeastOne(uncert)
                            /\ OneValidEnergy(key) => uncert = One
                    /\ (~log_target /\ OneValidEnergy(key)) => uncert = Zero

\* The same statement for the inputs whose rows are sorted by
\* (obs_id, event_id).
C29_LogUncertIsExpOfLogStdSortedInput ==
    (TableReturned /\ property = "energy" /\ InputSorted) =>
        \A g \in DOMAIN stereo_table.rows :
            LET key == RowKey(stereo_table.rows[g])
                uncert == stereo_table.rows[g].energy_uncert
            IN  stereo_table.rows[g].is_valid =>
                    /\ log_target =>
                            /\ uncert = Exp(LogGroupStd(key))
                            /\ AtLeastOne(uncert)
                            /\ OneValidEnergy(key) => uncert = One
                    /\ (~log_target /\ OneValidEnergy(key)) => uncert = Zero

\* every valid row, and every valid telescope of the event, has image
\* parameters, and length / width is the same for them all
RowsOfOneRatio ==
    \A i, j \in DOMAIN ValidInputRows :
        /\ IsRat(RowWeight(ValidInputRows[i]))
        /\ Div(ValidInputRows[i].hillas_length, ValidInputRows[i].hillas_width)
            = Div(ValidInputRows[j].hillas_length, ValidInputRows[j].hillas_width)
TelescopesOfOneRatio ==
    /\ AllHaveParameters
    /\ \A i, j \in ValidTelescopes :
            Div(Parameters(i).hillas.length, Parameters(i).hillas.width)
                = Div(Parameters(j).hillas.length, Parameters(j).hillas.width)

\* two calls on record of the same kind whose combiners weigh alike, or
\* one by intensity and one by intensity * length / width
SameWeights(i, j) == calls[i].kind = calls[j].kind /\ calls[i].weights = calls[j].weights
KonradAndIntensity(i, j) ==
    /\ calls[i].kind = calls[j].kind
    /\ {calls[i].weights, calls[j].weights} = {"konrad", "intensity"}

\* C30: multiplying the weights of all valid rows by one positive number
\* changes no combined value, uncertainty or is_valid flag, of
\* predict_table and of the event-wise call (stated for inputs whose valid
\* telescopes all have image parameters, the intensities being doubled);
\* and where length / width is the same for all valid telescopes, the
\* strategies konrad and intensity give the same.
C30_WeightScaleChangesNothing ==
    \A i, j \in DOMAIN calls :
        /\ (SameWeights(i, j) /\ calls[i].kind = "table") =>
                calls[i].result = calls[j].result
        /\ (SameWeights(i, j) /\ calls[i].kind = "event" /\ AllHaveParameters) =>
                /\ calls[i].raised = calls[j].raised
                /\ calls[i].raised = "none" =>
                        calls[i].result[property][prefix] = calls[j].result[property][prefix]
        /\ (KonradAndIntensity(i, j) /\ calls[i].kind = "table" /\ RowsOfOneRatio) =>
                calls[i].result = calls[j].result
        /\ (KonradAndIntensity(i, j) /\ calls[i].kind = "event" /\ TelescopesOfOneRatio) =>
                /\ calls[i].raised = calls[j].raised
                /\ calls[i].raised = "none" =>
                        calls[i].result[property][prefix] = calls[j].result[property][prefix]

\* the table of the unit tests, where the length is three times the width
\* in every row, combined by intensity, by konrad, and by konrad with all
\* intensities doubled: 7 TeV for array event (1, 1) each time
C30_Witness ==
    /\ property = "energy"
    /\ Len(calls) = 3
    /\ Len(mono_predictions) = 6
    /\ mono_predictions[2].hillas_intensity = Rat(4, 1)
    /\ RowsOfOneRatio
    /\ \A i \in 1..3 : calls[i].kind = "table" /\ calls[i].result.rows[1].energy = Rat(7, 1)
    /\ calls[1].weights = "intensity" /\ calls[2].weights = "konrad"
    /\ calls[3].weights = "konrad"

====
